---- MODULE Spec2Model ----
(***************************************************************************)
(* A state-machine model of the RPG library (src/rpg_core.py, with the     *)
(* content of src/rpg_factory.py): characters, abilities, status effects,  *)
(* equipment, the shop and the enemy decision policy.                      *)
(*                                                                         *)
(* Objects are modelled by value.  A character is a record held in         *)
(* chars[c]; an Ability instance is a record held in ability[a] and is     *)
(* referred to by its id a from the owners' ability lists; an Item object  *)
(* is referred to by its id (object identity: Item defines no __eq__).     *)
(* Names and descriptions, which only appear inside message texts, are     *)
(* left out; a message is a record [kind, amount].                         *)
(***************************************************************************)
EXTENDS Integers, Sequences, FiniteSets, TLC

VARIABLES
    chars,           \* character name -> Character record
    ability,         \* ability id -> Ability record (with current_cooldown)
    gold,            \* Player.gold of the player
    shop_inventory,  \* Shop.inventory: sequence of item ids
    reduced,         \* history: ability id -> reduce_cooldown calls since its
                     \*   last successful use (-1: never used; saturates at cooldown)
    last,            \* the last call: operation, arguments and returned value
    progress,        \* Player.level, experience, experience_to_next_level
                     \*   and stat_points of the player
    drop_table,      \* Enemy.drop_table of the enemy: sequence of
                     \*   [item, chance], the chance in tenths
    multipliers,     \* Shop.buy_price_multiplier and sell_price_multiplier,
                     \*   in tenths
    combat,          \* the combat loop of example_usage.py: the statement it
                     \*   is at and round_num
    heap             \* the StatusEffect objects by address, and each
                     \*   character's status_effects as a list of addresses
                     \*   (followed where object identity matters)

vars == <<chars, ability, gold, shop_inventory, reduced, last, progress,
          drop_table, multipliers, combat, heap>>

None == "none"

Max(a, b) == IF a >= b THEN a ELSE b
Min(a, b) == IF a <= b THEN a ELSE b

Range(s) == {s[i] : i \in 1..Len(s)}

Chars == {"player", "enemy"}

Other(c) == IF c = "player" THEN "enemy" ELSE "player"

(***************************************************************************)
(* Enumerations (rpg_core.py 19-43).                                       *)
(***************************************************************************)
ItemType == {"weapon", "armor", "consumable", "misc"}

AbilityType == {"attack", "heal", "buff", "debuff"}

StatusEffectType ==
    {"poison", "burn", "freeze", "stun", "strength_boost", "defense_boost",
     "speed_boost", "weakness", "vulnerability", "regeneration"}

(***************************************************************************)
(* random.randint ranges of Ability.use.                                   *)
(***************************************************************************)
AttackRollLo == -5
AttackRollHi == 5
HealRollLo == -2
HealRollHi == 2

AttackRoll == AttackRollLo..AttackRollHi
HealRoll == HealRollLo..HealRollHi

(***************************************************************************)
(* Messages.                                                               *)
(***************************************************************************)
Msg(kind, amount) == [kind |-> kind, amount |-> amount]

NoMsg == Msg("", 0)

(***************************************************************************)
(* StatusEffect                                                            *)
(***************************************************************************)
\* StatusEffect.__init__: remaining_duration starts at duration.
StatusEffect(effect_type, duration, power) ==
    [effect_type |-> effect_type, duration |-> duration, power |-> power,
     remaining_duration |-> duration]

NoEffect == [effect_type |-> None, duration |-> 0, power |-> 0,
             remaining_duration |-> 0]

\* An is_expired that waits for the remaining duration to go below 0.
is_expired_below_zero(e) == e.remaining_duration < 0

is_expired(e) == e.remaining_duration <= 0

prevents_action(e) == e.effect_type \in {"freeze", "stun"}

get_stat_modifier(e, stat) ==
    IF e.effect_type = "strength_boost" /\ stat = "attack" THEN e.power
    ELSE IF e.effect_type = "weakness" /\ stat = "attack" THEN 0 - e.power
    ELSE IF e.effect_type = "defense_boost" /\ stat = "defense" THEN e.power
    ELSE IF e.effect_type = "vulnerability" /\ stat = "defense" THEN 0 - e.power
    ELSE 0

(***************************************************************************)
(* Item: the objects the factories build.  stats is the dict, in insertion *)
(* order, as a sequence of <<key, value>> pairs.                           *)
(***************************************************************************)
Item(item_type, value, stats) ==
    [item_type |-> item_type, value |-> value, stats |-> stats]

\* The item objects of the model, by id (factory calls of rpg_factory.py).
ItemDef(i) ==
    CASE i = "sword"   -> Item("weapon", 20, <<<<"attack", 2>>>>)
      [] i = "blade"   -> Item("weapon", 30, <<<<"attack", 3>>>>)
      [] i = "mail"    -> Item("armor", 8, <<<<"defense", 1>>>>)
      [] i = "hpotion" -> Item("consumable", 25, <<<<"heal", 50>>>>)
      [] i = "mpotion" -> Item("consumable", 15, <<<<"mana", 30>>>>)
      [] i = "gem"     -> Item("consumable", 100, <<>>)
      [] OTHER         -> Item("misc", 0, <<>>)

Items == {"sword", "blade", "mail", "hpotion", "mpotion", "gem"}

Slots == {"weapon", "armor", "consumable"}

\* dict.get(key, 0) on an item's stats.
RECURSIVE stats_get(_, _)
stats_get(stats, key) ==
    IF stats = <<>> THEN 0
    ELSE IF Head(stats)[1] = key THEN Head(stats)[2]
    ELSE stats_get(Tail(stats), key)

(***************************************************************************)
(* Character                                                               *)
(***************************************************************************)
\* Character.__init__(name, hp, mana, attack, defense).
Character(hp, mana, attack, defense) ==
    [max_hp |-> hp, hp |-> hp, max_mana |-> mana, mana |-> mana,
     attack |-> attack, defense |-> defense,
     abilities |-> <<>>, inventory |-> <<>>,
     equipped |-> [s \in Slots |-> None],
     status_effects |-> <<>>]

\* "total += item.stats.get(stat, 0)" over the equipped items.
RECURSIVE equipment_bonus(_, _, _)
equipment_bonus(ch, stat, slots) ==
    IF slots = {} THEN 0
    ELSE LET s == CHOOSE x \in slots : TRUE
             b == IF ch.equipped[s] = None THEN 0
                  ELSE stats_get(ItemDef(ch.equipped[s]).stats, stat)
         IN  b + equipment_bonus(ch, stat, slots \ {s})

\* "total += effect.get_stat_modifier(stat)" over the status effects.
RECURSIVE effect_bonus(_, _)
effect_bonus(effects, stat) ==
    IF effects = <<>> THEN 0
    ELSE get_stat_modifier(Head(effects), stat) + effect_bonus(Tail(effects), stat)

\* A get_total_attack without the floor at 0.
get_total_attack_unfloored(ch) ==
    ch.attack + equipment_bonus(ch, "attack", Slots)
              + effect_bonus(ch.status_effects, "attack")

get_total_attack(ch) ==
    Max(0, ch.attack + equipment_bonus(ch, "attack", Slots)
                     + effect_bonus(ch.status_effects, "attack"))

\* A get_total_defense without the floor at 0.
get_total_defense_unfloored(ch) ==
    ch.defense + equipment_bonus(ch, "defense", Slots)
               + effect_bonus(ch.status_effects, "defense")

get_total_defense(ch) ==
    Max(0, ch.defense + equipment_bonus(ch, "defense", Slots)
                      + effect_bonus(ch.status_effects, "defense"))

is_alive(ch) == ch.hp > 0

\* An actual_damage whose floor is 0 instead of 1.
actual_damage_floor_zero(ch, damage) == Max(0, damage - get_total_defense(ch))

\* The local actual_damage of take_damage.
actual_damage(ch, damage) == Max(1, damage - get_total_defense(ch))

\* take_damage: the character afterwards; the call returns actual_damage.
take_damage(ch, damage) ==
    [ch EXCEPT !.hp = Max(0, ch.hp - actual_damage(ch, damage))]

heal(ch, amount) == [ch EXCEPT !.hp = Min(ch.max_hp, ch.hp + amount)]

restore_mana(ch, amount) ==
    [ch EXCEPT !.mana = Min(ch.max_mana, ch.mana + amount)]

has_status_effect(ch, effect_type) ==
    \E i \in 1..Len(ch.status_effects) :
        ch.status_effects[i].effect_type = effect_type

is_action_prevented(ch) ==
    \E i \in 1..Len(ch.status_effects) : prevents_action(ch.status_effects[i])

\* list.remove at index i.
RemoveAt(s, i) == SubSeq(s, 1, i - 1) \o SubSeq(s, i + 1, Len(s))

\* An add_status_effect that stacks: it appends without the replace.
add_status_effect_stacking(ch, status_effect) ==
    [ch EXCEPT !.status_effects = Append(ch.status_effects, status_effect)]

\* add_status_effect: drop the first effect of the same type, then append.
add_status_effect(ch, status_effect) ==
    LET same == {i \in 1..Len(ch.status_effects) :
                   ch.status_effects[i].effect_type = status_effect.effect_type}
        kept == IF same = {} THEN ch.status_effects
                ELSE RemoveAt(ch.status_effects,
                              CHOOSE i \in same : \A j \in same : i <= j)
    IN  [ch EXCEPT !.status_effects = Append(kept, status_effect)]

remove_status_effect(ch, effect_type) ==
    [ch EXCEPT !.status_effects =
        SelectSeq(ch.status_effects, LAMBDA e : e.effect_type # effect_type)]

\* An apply_effect that leaves a dead character alone.
apply_effect_alive_only(ch, e) ==
    IF e.remaining_duration <= 0 \/ ch.hp <= 0
    THEN [ch |-> ch, effect |-> e, msg |-> NoMsg]
    ELSE LET ticked == [e EXCEPT !.remaining_duration = e.remaining_duration - 1]
         IN  CASE e.effect_type \in {"poison", "burn"} ->
                    [ch |-> take_damage(ch, e.power), effect |-> ticked,
                     msg |-> Msg(IF e.effect_type = "poison"
                                 THEN "poison damage" ELSE "burn damage",
                                 e.power)]
               [] e.effect_type = "regeneration" ->
                    [ch |-> heal(ch, e.power), effect |-> ticked,
                     msg |-> Msg("regenerates", e.power)]
               [] e.effect_type = "freeze" ->
                    [ch |-> ch, effect |-> ticked, msg |-> Msg("frozen", 0)]
               [] e.effect_type = "stun" ->
                    [ch |-> ch, effect |-> ticked, msg |-> Msg("stunned", 0)]
               [] e.effect_type \in {"strength_boost", "weakness",
                                     "defense_boost", "vulnerability"} ->
                    [ch |-> ch, effect |-> ticked, msg |-> Msg("affected by", 0)]
               [] OTHER ->
                    [ch |-> ch, effect |-> ticked, msg |-> NoMsg]

\* StatusEffect.apply_effect(character): the character and the effect
\* afterwards, and the message returned ("" is NoMsg).
apply_effect(ch, e) ==
    IF e.remaining_duration <= 0 THEN [ch |-> ch, effect |-> e, msg |-> NoMsg]
    ELSE LET ticked == [e EXCEPT !.remaining_duration = e.remaining_duration - 1]
         IN  CASE e.effect_type = "poison" ->
                    [ch |-> take_damage(ch, e.power), effect |-> ticked,
                     msg |-> Msg("poison damage", e.power)]
               [] e.effect_type = "burn" ->
                    [ch |-> take_damage(ch, e.power), effect |-> ticked,
                     msg |-> Msg("burn damage", e.power)]
               [] e.effect_type = "regeneration" ->
                    [ch |-> heal(ch, e.power), effect |-> ticked,
                     msg |-> Msg("regenerates", e.power)]
               [] e.effect_type = "freeze" ->
                    [ch |-> ch, effect |-> ticked, msg |-> Msg("frozen", 0)]
               [] e.effect_type = "stun" ->
                    [ch |-> ch, effect |-> ticked, msg |-> Msg("stunned", 0)]
               [] e.effect_type \in {"strength_boost", "weakness",
                                     "defense_boost", "vulnerability"} ->
                    [ch |-> ch, effect |-> ticked, msg |-> Msg("affected by", 0)]
               [] OTHER ->
                    [ch |-> ch, effect |-> ticked, msg |-> NoMsg]

\* The first loop of process_status_effects from index i on: each effect is
\* applied to the character as the earlier ones left it, and is written back
\* with its decremented remaining_duration.
RECURSIVE apply_effects_from(_, _, _)
apply_effects_from(ch, i, messages) ==
    IF i > Len(ch.status_effects) THEN [ch |-> ch, messages |-> messages]
    ELSE LET r == apply_effect(ch, ch.status_effects[i])
             ch2 == [r.ch EXCEPT !.status_effects[i] = r.effect]
         IN  apply_effects_from(ch2, i + 1,
                 IF r.msg = NoMsg THEN messages ELSE Append(messages, r.msg))

\* "{self.name}'s {effect.name} has worn off.": the message names the effect.
WornOffMsg(e) == [kind |-> "worn off", amount |-> 0, effect |-> e.effect_type]

\* The "worn off" messages of the second loop, in list order.
RECURSIVE worn_off(_)
worn_off(effects) ==
    IF effects = <<>> THEN <<>>
    ELSE (IF is_expired(Head(effects)) THEN <<WornOffMsg(Head(effects))>>
          ELSE <<>>)
         \o worn_off(Tail(effects))

\* A process_status_effects that reports the worn-off effects first.
process_status_effects_worn_off_first(ch) ==
    LET r == apply_effects_from(ch, 1, <<>>)
    IN  [ch |-> [r.ch EXCEPT !.status_effects =
                    SelectSeq(r.ch.status_effects, LAMBDA e : ~is_expired(e))],
         messages |-> worn_off(r.ch.status_effects) \o r.messages]

\* process_status_effects: the character afterwards and the messages.
process_status_effects(ch) ==
    LET r == apply_effects_from(ch, 1, <<>>)
    IN  [ch |-> [r.ch EXCEPT !.status_effects =
                    SelectSeq(r.ch.status_effects, LAMBDA e : ~is_expired(e))],
         messages |-> r.messages \o worn_off(r.ch.status_effects)]

(***************************************************************************)
(* Equipment.  A call that raises is modelled by raised = TRUE, with the   *)
(* character as the statements before the raise left it.                   *)
(***************************************************************************)
\* What getattr(self, stat) finds: a number, a bound method (Character.heal
\* for the key "heal"), or nothing (hasattr is False).
NumericAttributes == {"hp", "max_hp", "mana", "max_mana", "attack", "defense"}

MethodAttributes == {"heal", "take_damage", "restore_mana"}

add_to_attribute(ch, stat, value) ==
    CASE stat = "hp"       -> [ch EXCEPT !.hp = ch.hp + value]
      [] stat = "max_hp"   -> [ch EXCEPT !.max_hp = ch.max_hp + value]
      [] stat = "mana"     -> [ch EXCEPT !.mana = ch.mana + value]
      [] stat = "max_mana" -> [ch EXCEPT !.max_mana = ch.max_mana + value]
      [] stat = "attack"   -> [ch EXCEPT !.attack = ch.attack + value]
      [] stat = "defense"  -> [ch EXCEPT !.defense = ch.defense + value]
      [] OTHER             -> ch

\* "for stat, value in item.stats.items(): if hasattr(self, stat):
\*  setattr(self, stat, getattr(self, stat) + sign * value)": method + int
\* raises TypeError and ends the loop.
RECURSIVE apply_stats(_, _, _)
apply_stats(ch, stats, sign) ==
    IF stats = <<>> THEN [ch |-> ch, raised |-> FALSE]
    ELSE LET stat == Head(stats)[1]
             value == Head(stats)[2]
         IN  IF stat \in MethodAttributes THEN [ch |-> ch, raised |-> TRUE]
             ELSE apply_stats(add_to_attribute(ch, stat, sign * value),
                              Tail(stats), sign)

\* "item in self.inventory".
in_inventory(ch, item) == \E i \in 1..Len(ch.inventory) : ch.inventory[i] = item

\* A remove that takes every occurrence out of the list.
remove_item_every_unit(inventory, item) ==
    SelectSeq(inventory, LAMBDA x : x # item)

\* "self.inventory.remove(item)": the first occurrence.
remove_item(inventory, item) ==
    LET at == {i \in 1..Len(inventory) : inventory[i] = item}
    IN  IF at = {} THEN inventory
        ELSE RemoveAt(inventory, CHOOSE i \in at : \A j \in at : i <= j)

\* An unequip_item that leaves the item's stats on the character.
unequip_item_keeps_stats(ch, slot) ==
    IF ch.equipped[slot] = None THEN [ch |-> ch, raised |-> FALSE]
    ELSE [ch |-> [ch EXCEPT !.equipped[slot] = None,
                            !.inventory = Append(ch.inventory, ch.equipped[slot])],
          raised |-> FALSE]

unequip_item(ch, slot) ==
    IF ch.equipped[slot] = None THEN [ch |-> ch, raised |-> FALSE]
    ELSE LET item == ch.equipped[slot]
             moved == [ch EXCEPT !.equipped[slot] = None,
                                 !.inventory = Append(ch.inventory, item)]
         IN  apply_stats(moved, ItemDef(item).stats, -1)

\* "if slot is None: slot = item.item_type.value".
slot_of(item, slot) == IF slot = None THEN ItemDef(item).item_type ELSE slot

\* An equip_item that leaves the character's own attributes as they are.
equip_item_as_overlay(ch, item, slot) ==
    IF ~in_inventory(ch, item) THEN [ch |-> ch, raised |-> FALSE]
    ELSE LET s == slot_of(item, slot)
             freed == unequip_item(ch, s)
         IN  IF freed.raised THEN freed
             ELSE [ch |-> [freed.ch EXCEPT
                             !.equipped[s] = item,
                             !.inventory = remove_item(freed.ch.inventory, item)],
                   raised |-> FALSE]

equip_item(ch, item, slot) ==
    IF ~in_inventory(ch, item) THEN [ch |-> ch, raised |-> FALSE]
    ELSE LET s == slot_of(item, slot)
             freed == unequip_item(ch, s)
         IN  IF freed.raised THEN freed
             ELSE apply_stats(
                      [freed.ch EXCEPT !.equipped[s] = item,
                                       !.inventory = remove_item(freed.ch.inventory, item)],
                      ItemDef(item).stats, 1)

(***************************************************************************)
(* Shop and Player.gold                                                    *)
(***************************************************************************)
\* buy_price_multiplier = 1.0 and sell_price_multiplier = 0.5, in tenths.
BuyMultiplierTenths == 10
SellMultiplierTenths == 5

\* Shop.__init__.
DefaultMultipliers ==
    [buy |-> BuyMultiplierTenths, sell |-> SellMultiplierTenths]

\* A get_buy_price that rounds to the nearest integer.
get_buy_price_rounded(item) ==
    (ItemDef(item).value * multipliers.buy + 5) \div 10

\* int(item.value * multiplier), for values >= 0.  The product of the
\* doubles is exact for the multipliers of the model, which are multiples
\* of one half.
get_buy_price(item) == (ItemDef(item).value * multipliers.buy) \div 10

get_sell_price(item) == (ItemDef(item).value * multipliers.sell) \div 10

\* A spend_gold that lets the gold go below 0.
spend_gold_on_credit(g, amount) == [gold |-> g - amount, ok |-> TRUE]

\* Player.spend_gold(amount): the gold afterwards and the returned value.
spend_gold(g, amount) ==
    IF g >= amount THEN [gold |-> g - amount, ok |-> TRUE]
    ELSE [gold |-> g, ok |-> FALSE]

\* A sell_item that leaves the sold unit in the player's inventory.
sell_item_keeps_unit(ch, g, stock, item) ==
    IF ~in_inventory(ch, item)
    THEN [ch |-> ch, gold |-> g, stock |-> stock, ok |-> FALSE]
    ELSE [ch |-> ch, gold |-> g + get_sell_price(item),
          stock |-> Append(stock, item), ok |-> TRUE]

\* Shop.sell_item(player, item), with Player.add_gold and Shop.add_item: the
\* player, the gold and the stock afterwards, and the returned value.
sell_item(ch, g, stock, item) ==
    IF ~in_inventory(ch, item)
    THEN [ch |-> ch, gold |-> g, stock |-> stock, ok |-> FALSE]
    ELSE [ch |-> [ch EXCEPT !.inventory = remove_item(ch.inventory, item)],
          gold |-> g + get_sell_price(item),
          stock |-> Append(stock, item), ok |-> TRUE]

(***************************************************************************)
(* Player: level, experience and stat points.                              *)
(***************************************************************************)
\* Player.__init__.
NewProgress ==
    [level |-> 1, experience |-> 0, experience_to_next_level |-> 100,
     stat_points |-> 0]

\* The combat loop is not running.
NoCombat == [pc |-> "off", round_num |-> 0]

\* No StatusEffect object is followed by address.
NoHeap == [objects |-> <<>>, status_effects |-> <<>>]

\* random.randint ranges of Player.level_up.
HpIncreaseLo == 8
HpIncreaseHi == 12
ManaIncreaseLo == 3
ManaIncreaseHi == 7
AttackIncreaseLo == 1
AttackIncreaseHi == 3
DefenseIncreaseLo == 1
DefenseIncreaseHi == 2

\* A level_up that keeps the threshold as it is.
level_up_same_threshold(pr) ==
    [level |-> pr.level + 1,
     experience |-> pr.experience - pr.experience_to_next_level,
     experience_to_next_level |-> pr.experience_to_next_level,
     stat_points |-> pr.stat_points + 2]

\* A level_up that takes the new threshold off the experience.
level_up_new_threshold_first(pr) ==
    LET t == (pr.experience_to_next_level * 12) \div 10
    IN  [level |-> pr.level + 1, experience |-> pr.experience - t,
         experience_to_next_level |-> t, stat_points |-> pr.stat_points + 2]

\* Player.level_up, the progress fields.  int(t * 1.2) is (t * 12) \div 10
\* for every t from 0 to 100000 (the double product truncates to it).
level_up(pr) ==
    [level |-> pr.level + 1,
     experience |-> pr.experience - pr.experience_to_next_level,
     experience_to_next_level |-> (pr.experience_to_next_level * 12) \div 10,
     stat_points |-> pr.stat_points + 2]

\* "while self.experience >= self.experience_to_next_level: self.level_up()".
RECURSIVE level_up_loop(_)
level_up_loop(pr) ==
    IF pr.experience >= pr.experience_to_next_level
    THEN level_up_loop(level_up(pr))
    ELSE pr

gain_experience(pr, exp) ==
    level_up_loop([pr EXCEPT !.experience = pr.experience + exp])

\* Player.level_up, the character fields, for n level-ups in a row: the n
\* rolls of each kind add up to any number from n * lowest to n * highest.
IncreaseRolls(n) ==
    [hp : (n * HpIncreaseLo)..(n * HpIncreaseHi),
     mana : (n * ManaIncreaseLo)..(n * ManaIncreaseHi),
     attack : (n * AttackIncreaseLo)..(n * AttackIncreaseHi),
     defense : (n * DefenseIncreaseLo)..(n * DefenseIncreaseHi)]

level_up_stats(ch, inc) ==
    [ch EXCEPT !.max_hp = ch.max_hp + inc.hp, !.hp = ch.hp + inc.hp,
               !.max_mana = ch.max_mana + inc.mana, !.mana = ch.mana + inc.mana,
               !.attack = ch.attack + inc.attack,
               !.defense = ch.defense + inc.defense]

(***************************************************************************)
(* Ability                                                                 *)
(***************************************************************************)
\* Ability.__init__: current_cooldown starts at 0; status_effect is the
\* template (NoEffect for None).
Ability(ability_type, power, mana_cost, cooldown, status_effect) ==
    [ability_type |-> ability_type, power |-> power, mana_cost |-> mana_cost,
     cooldown |-> cooldown, current_cooldown |-> 0,
     status_effect |-> status_effect]

\* A can_use that forgets the status effects of the caster.
can_use_ignoring_status(ab, caster) ==
    /\ ab.current_cooldown = 0
    /\ caster.mana >= ab.mana_cost

can_use(ab, caster) ==
    /\ ab.current_cooldown = 0
    /\ caster.mana >= ab.mana_cost
    /\ ~is_action_prevented(caster)

\* A copy that starts one turn short of the template's duration.
new_effect_worn(ab) ==
    [StatusEffect(ab.status_effect.effect_type, ab.status_effect.duration,
                  ab.status_effect.power)
       EXCEPT !.remaining_duration = ab.status_effect.duration - 1]

\* "new_effect = StatusEffect(template.name, template.effect_type,
\*  template.duration, template.power, template.description)".
new_effect(ab) ==
    StatusEffect(ab.status_effect.effect_type, ab.status_effect.duration,
                 ab.status_effect.power)

\* The failure branch of use (lines 156-159): nothing is changed.
use_failure(ab, caster, target) ==
    [ability |-> ab, caster |-> caster, target |-> target,
     msgs |-> IF is_action_prevented(caster)
              THEN <<Msg("unable to act", 0)>>
              ELSE <<Msg("cannot use", 0)>>]

\* An ATTACK branch that reports a failure when it has no target.
use_attack_fails_untargeted(ab, caster, target, has_target, roll) ==
    IF ~has_target THEN [ability |-> ab, caster |-> caster, target |-> target,
                         msgs |-> <<Msg("cannot use", 0)>>]
    ELSE LET damage == get_total_attack(caster) + ab.power + roll
             hit == take_damage(target, damage)
             attach == ab.status_effect # NoEffect /\ is_alive(hit)
         IN  [ability |-> ab, caster |-> caster,
              target |-> IF attach THEN add_status_effect(hit, new_effect(ab))
                         ELSE hit,
              msgs |-> <<Msg("attacks", actual_damage(target, damage))>>
                       \o (IF attach THEN <<Msg("is affected by", 0)>> ELSE <<>>)]

\* An ATTACK branch that attaches the effect to a target the damage killed.
use_attack_on_dead(ab, caster, target, has_target, roll) ==
    IF ~has_target THEN [ability |-> ab, caster |-> caster, target |-> target,
                         msgs |-> <<>>]
    ELSE LET damage == get_total_attack(caster) + ab.power + roll
             hit == take_damage(target, damage)
             attach == ab.status_effect # NoEffect
         IN  [ability |-> ab, caster |-> caster,
              target |-> IF attach THEN add_status_effect(hit, new_effect(ab))
                         ELSE hit,
              msgs |-> <<Msg("attacks", actual_damage(target, damage))>>
                       \o (IF attach THEN <<Msg("is affected by", 0)>> ELSE <<>>)]

\* The ATTACK branch, after mana and cooldown were taken.
use_attack(ab, caster, target, has_target, roll) ==
    IF ~has_target THEN [ability |-> ab, caster |-> caster, target |-> target,
                         msgs |-> <<>>]
    ELSE LET damage == get_total_attack(caster) + ab.power + roll
             hit == take_damage(target, damage)
             attach == ab.status_effect # NoEffect /\ is_alive(hit)
         IN  [ability |-> ab, caster |-> caster,
              target |-> IF attach THEN add_status_effect(hit, new_effect(ab))
                         ELSE hit,
              msgs |-> <<Msg("attacks", actual_damage(target, damage))>>
                       \o (IF attach THEN <<Msg("is affected by", 0)>> ELSE <<>>)]

\* A HEAL branch that attaches the effect to the target it was passed.
use_heal_blesses_target(ab, caster, target, roll) ==
    LET heal_amount == ab.power + roll
        healed == heal(caster, heal_amount)
        attach == ab.status_effect # NoEffect
    IN  [ability |-> ab,
         caster |-> healed,
         target |-> IF attach THEN add_status_effect(target, new_effect(ab))
                    ELSE target,
         msgs |-> <<Msg("heals", heal_amount)>>
                  \o (IF attach THEN <<Msg("gains", 0)>> ELSE <<>>)]

\* The HEAL branch: the caster only.
use_heal(ab, caster, target, roll) ==
    LET heal_amount == ab.power + roll
        healed == heal(caster, heal_amount)
        attach == ab.status_effect # NoEffect
    IN  [ability |-> ab,
         caster |-> IF attach THEN add_status_effect(healed, new_effect(ab))
                    ELSE healed,
         target |-> target,
         msgs |-> <<Msg("heals", heal_amount)>>
                  \o (IF attach THEN <<Msg("gains", 0)>> ELSE <<>>)]

\* A BUFF branch that always attaches the effect to the caster.
use_buff_on_caster(ab, caster, target, has_target) ==
    IF ab.status_effect = NoEffect
    THEN [ability |-> ab, caster |-> caster, target |-> target,
          msgs |-> <<Msg("uses", 0)>>]
    ELSE [ability |-> ab,
          caster |-> add_status_effect(caster, new_effect(ab)),
          target |-> target,
          msgs |-> <<Msg("gains", 0)>>]

\* The BUFF branch: target_char = target if target else caster.
use_buff(ab, caster, target, has_target) ==
    IF ab.status_effect = NoEffect
    THEN [ability |-> ab, caster |-> caster, target |-> target,
          msgs |-> <<Msg("uses", 0)>>]
    ELSE IF has_target
    THEN [ability |-> ab, caster |-> caster,
          target |-> add_status_effect(target, new_effect(ab)),
          msgs |-> <<Msg("gains", 0)>>]
    ELSE [ability |-> ab,
          caster |-> add_status_effect(caster, new_effect(ab)),
          target |-> target,
          msgs |-> <<Msg("gains", 0)>>]

\* The DEBUFF branch.
use_debuff(ab, caster, target, has_target) ==
    IF has_target /\ ab.status_effect # NoEffect
    THEN [ability |-> ab, caster |-> caster,
          target |-> add_status_effect(target, new_effect(ab)),
          msgs |-> <<Msg("is afflicted with", 0)>>]
    ELSE [ability |-> ab, caster |-> caster, target |-> target,
          msgs |-> <<Msg("uses", 0)>>]

\* "caster.mana -= self.mana_cost; self.current_cooldown = self.cooldown".
pay_mana(ab, caster) == [caster EXCEPT !.mana = caster.mana - ab.mana_cost]

\* A use that sets the cooldown one round too long.
start_cooldown_one_more(ab) == [ab EXCEPT !.current_cooldown = ab.cooldown + 1]

start_cooldown(ab) == [ab EXCEPT !.current_cooldown = ab.cooldown]

\* Ability.use(caster, target): the ability, the caster and the target
\* afterwards and the messages joined into the returned string.  target is
\* read only when has_target; roll is the value random.randint returns.
use(ab, caster, target, has_target, roll) ==
    IF ~can_use(ab, caster) THEN use_failure(ab, caster, target)
    ELSE LET paid == pay_mana(ab, caster)
             started == start_cooldown(ab)
         IN  CASE ab.ability_type = "attack" ->
                    use_attack(started, paid, target, has_target, roll)
               [] ab.ability_type = "heal" ->
                    use_heal(started, paid, target, roll)
               [] ab.ability_type = "buff" ->
                    use_buff(started, paid, target, has_target)
               [] ab.ability_type = "debuff" ->
                    use_debuff(started, paid, target, has_target)

\* The values random.randint can return in use (one value where it is not
\* called).
Rolls(ab, caster, has_target) ==
    IF ~can_use(ab, caster) THEN {0}
    ELSE IF ab.ability_type = "attack" /\ has_target THEN AttackRoll
    ELSE IF ab.ability_type = "heal" THEN HealRoll
    ELSE {0}

\* A reduce_cooldown without the "> 0" test.
reduce_cooldown_unfloored(ab) ==
    [ab EXCEPT !.current_cooldown = ab.current_cooldown - 1]

reduce_cooldown(ab) ==
    IF ab.current_cooldown > 0
    THEN [ab EXCEPT !.current_cooldown = ab.current_cooldown - 1]
    ELSE ab

\* update_cooldowns: reduce_cooldown once per entry of the ability list.
RECURSIVE update_cooldowns(_, _)
update_cooldowns(abilities, abmap) ==
    IF abilities = <<>> THEN abmap
    ELSE update_cooldowns(Tail(abilities),
             [abmap EXCEPT ![Head(abilities)] = reduce_cooldown(@)])

(***************************************************************************)
(* Enemy.ai_choose_ability                                                 *)
(***************************************************************************)
\* "a.power >= 20" of priority 6.
HighDamagePower == 20

\* "self.hp < self.max_hp * 0.25", in integers.
critically_low(ch) == ch.hp * 4 < ch.max_hp

\* The abilities a in usable whose template has one of the given types.
with_template(usable, abmap, types) ==
    {a \in usable : /\ abmap[a].status_effect # NoEffect
                    /\ abmap[a].status_effect.effect_type \in types}

\* An ai_choose_ability that looks for an attack before anything else.
ai_choose_ability_attack_first(self, target, abmap) ==
    LET usable_abilities == {a \in Range(self.abilities) : can_use(abmap[a], self)}
        attack_abilities ==
            {a \in usable_abilities : abmap[a].ability_type = "attack"}
    IN  IF usable_abilities = {} THEN {None}
        ELSE IF attack_abilities # {} THEN attack_abilities
        ELSE usable_abilities

\* An ai_choose_ability that forgets the can_use filter.
ai_choose_ability_unfiltered(self, target, abmap) ==
    IF self.abilities = <<>> THEN {None} ELSE Range(self.abilities)

\* ai_choose_ability(self, target): the set of values it can return
\* (random.choice picks any member of the list; {None} when it returns None).
ai_choose_ability(self, target, abmap) ==
    LET usable_abilities == {a \in Range(self.abilities) : can_use(abmap[a], self)}
        heal_abilities ==
            {a \in usable_abilities : abmap[a].ability_type = "heal"}
        buffed == \E t \in {"strength_boost", "defense_boost", "speed_boost",
                            "regeneration"} : has_status_effect(self, t)
        buff_abilities ==
            {a \in usable_abilities : abmap[a].ability_type = "buff"}
        damage_over_time_abilities ==
            with_template(usable_abilities, abmap, {"poison", "burn"})
        cc_abilities ==
            with_template(usable_abilities, abmap, {"stun", "freeze"})
        debuff_abilities ==
            with_template(usable_abilities, abmap, {"weakness", "vulnerability"})
        high_damage_abilities ==
            {a \in usable_abilities : /\ abmap[a].ability_type = "attack"
                                      /\ abmap[a].power >= HighDamagePower}
        attack_abilities ==
            {a \in usable_abilities : abmap[a].ability_type = "attack"}
    IN  IF usable_abilities = {} THEN {None}
        ELSE IF critically_low(self) /\ heal_abilities # {}
        THEN heal_abilities
        ELSE IF ~buffed /\ buff_abilities # {}
        THEN buff_abilities
        ELSE IF /\ ~has_status_effect(target, "poison")
                /\ ~has_status_effect(target, "burn")
                /\ damage_over_time_abilities # {}
        THEN damage_over_time_abilities
        ELSE IF /\ ~has_status_effect(target, "stun")
                /\ ~has_status_effect(target, "freeze")
                /\ cc_abilities # {}
        THEN cc_abilities
        ELSE IF /\ ~has_status_effect(target, "weakness")
                /\ ~has_status_effect(target, "vulnerability")
                /\ debuff_abilities # {}
        THEN debuff_abilities
        ELSE IF high_damage_abilities # {} THEN high_damage_abilities
        ELSE IF attack_abilities # {} THEN attack_abilities
        ELSE usable_abilities

(***************************************************************************)
(* The calls, as actions.  last records the call and what it returned.     *)
(***************************************************************************)
Call(op, args, ret) == [op |-> op, args |-> args, ret |-> ret]

\* History of reduce_cooldown calls, kept beside update_cooldowns.
RECURSIVE count_reduced(_, _, _)
count_reduced(abilities, abmap, red) ==
    IF abilities = <<>> THEN red
    ELSE LET a == Head(abilities)
         IN  count_reduced(Tail(abilities), abmap,
                 [red EXCEPT ![a] = IF @ < 0 THEN @
                                    ELSE Min(abmap[a].cooldown, @ + 1)])

TakeDamage(c, damage) ==
    /\ chars' = [chars EXCEPT ![c] = take_damage(@, damage)]
    /\ last' = Call("take_damage", [ch |-> c, amount |-> damage],
                    actual_damage(chars[c], damage))
    /\ UNCHANGED <<ability, gold, shop_inventory, reduced>>
    /\ UNCHANGED <<progress, drop_table, multipliers, combat, heap>>

Heal(c, amount) ==
    /\ chars' = [chars EXCEPT ![c] = heal(@, amount)]
    /\ last' = Call("heal", [ch |-> c, amount |-> amount], None)
    /\ UNCHANGED <<ability, gold, shop_inventory, reduced>>
    /\ UNCHANGED <<progress, drop_table, multipliers, combat, heap>>

RestoreMana(c, amount) ==
    /\ chars' = [chars EXCEPT ![c] = restore_mana(@, amount)]
    /\ last' = Call("restore_mana", [ch |-> c, amount |-> amount], None)
    /\ UNCHANGED <<ability, gold, shop_inventory, reduced>>
    /\ UNCHANGED <<progress, drop_table, multipliers, combat, heap>>

\* add_status_effect with a newly constructed StatusEffect.
AddStatusEffect(c, e) ==
    /\ chars' = [chars EXCEPT ![c] = add_status_effect(@, e)]
    /\ last' = Call("add_status_effect",
                    [ch |-> c, effect |-> e,
                     had |-> has_status_effect(chars[c], e.effect_type)], None)
    /\ UNCHANGED <<ability, gold, shop_inventory, reduced>>
    /\ UNCHANGED <<progress, drop_table, multipliers, combat, heap>>

RemoveStatusEffect(c, effect_type) ==
    /\ chars' = [chars EXCEPT ![c] = remove_status_effect(@, effect_type)]
    /\ last' = Call("remove_status_effect",
                    [ch |-> c, effect_type |-> effect_type], None)
    /\ UNCHANGED <<ability, gold, shop_inventory, reduced>>
    /\ UNCHANGED <<progress, drop_table, multipliers, combat, heap>>

ProcessStatusEffects(c) ==
    LET r == process_status_effects(chars[c])
    IN  /\ chars' = [chars EXCEPT ![c] = r.ch]
        /\ last' = Call("process_status_effects",
                        [ch |-> c, hp |-> chars[c].hp], r.messages)
        /\ UNCHANGED <<ability, gold, shop_inventory, reduced>>
        /\ UNCHANGED <<progress, drop_table, multipliers, combat, heap>>

UpdateCooldowns(c) ==
    /\ ability' = update_cooldowns(chars[c].abilities, ability)
    /\ reduced' = count_reduced(chars[c].abilities, ability, reduced)
    /\ last' = Call("update_cooldowns", [ch |-> c], None)
    /\ UNCHANGED <<chars, gold, shop_inventory>>
    /\ UNCHANGED <<progress, drop_table, multipliers, combat, heap>>

\* How far below 0 the model follows a character's hp.
MaxDeficit == 1

\* a.use(c, t) for an ability a of c's list; t = None is "no target".
Use(c, a, t) ==
    LET has_target == t # None
        target == IF has_target THEN chars[t] ELSE chars[c]
    IN  \E roll \in Rolls(ability[a], chars[c], has_target) :
          LET r == use(ability[a], chars[c], target, has_target, roll)
          IN  /\ r.caster.hp >= 0 - MaxDeficit
              /\ chars' = [x \in Chars |->
                             IF x = c THEN r.caster
                             ELSE IF x = t THEN r.target ELSE chars[x]]
              /\ ability' = [ability EXCEPT ![a] = r.ability]
              /\ reduced' = IF can_use(ability[a], chars[c])
                            THEN [reduced EXCEPT ![a] = 0] ELSE reduced
              /\ last' = Call("use", [ch |-> c, ability |-> a, target |-> t],
                              r.msgs)
              /\ UNCHANGED <<gold, shop_inventory>>
              /\ UNCHANGED <<progress, drop_table, multipliers, combat, heap>>

\* enemy.ai_choose_ability(player).
AiChooseAbility ==
    /\ \E a \in ai_choose_ability(chars["enemy"], chars["player"], ability) :
          last' = Call("ai_choose_ability",
                       [ch |-> "enemy", target |-> "player"], a)
    /\ UNCHANGED <<chars, ability, gold, shop_inventory, reduced>>
    /\ UNCHANGED <<progress, drop_table, multipliers, combat, heap>>

(***************************************************************************)
(* Spec: a fight between two characters that own two abilities each.       *)
(***************************************************************************)
\* Constructor arguments of the two characters.
StartHp == 2
StartMana == 2
\* The largest amount handed to restore_mana.
MaxRestore == 1

CombatAbilities ==
    [p_dart |-> Ability("attack", 1, 1, 2, StatusEffect("poison", 2, 2)),
     p_heal |-> Ability("heal", 1, 1, 1, NoEffect)]

\* The effects handed to add_status_effect directly.
EffectInputs == {StatusEffect("stun", 2, 0)}

NoCall == Call("init", None, None)

Init ==
    /\ chars = [c \in Chars |->
                  [Character(StartHp, StartMana, 2, 1) EXCEPT
                     !.abilities = IF c = "player" THEN <<"p_dart", "p_heal">>
                                   ELSE <<>>]]
    /\ ability = CombatAbilities
    /\ gold = 0
    /\ shop_inventory = <<>>
    /\ progress = NewProgress
    /\ drop_table = <<>>
    /\ multipliers = DefaultMultipliers
    /\ combat = NoCombat
    /\ heap = NoHeap
    /\ reduced = [a \in DOMAIN CombatAbilities |-> -1]
    /\ last = NoCall

Next ==
    \/ \E c \in Chars : \E a \in Range(chars[c].abilities) :
         \E t \in {Other(c), None} : Use(c, a, t)
    \/ \E c \in Chars : ProcessStatusEffects(c)
    \/ \E c \in Chars : UpdateCooldowns(c)
    \/ \E c \in Chars : \E amount \in 1..MaxRestore : RestoreMana(c, amount)
    \/ \E c \in Chars : \E e \in EffectInputs : AddStatusEffect(c, e)
    \/ \E c \in Chars : \E e \in EffectInputs :
         RemoveStatusEffect(c, e.effect_type)

Spec == Init /\ [][Next]_vars

(***************************************************************************)
(* Claims checked under Spec.                                              *)
(***************************************************************************)
\* C1: for every character 0 <= hp <= max_hp and 0 <= mana <= max_mana after
\* any sequence of the public operations.
C1_HpAndManaInRange ==
    \A c \in Chars : /\ 0 <= chars[c].hp /\ chars[c].hp <= chars[c].max_hp
                     /\ 0 <= chars[c].mana /\ chars[c].mana <= chars[c].max_mana

\* The caster has an active Freeze or Stun.
Frozen(ch) == has_status_effect(ch, "freeze") \/ has_status_effect(ch, "stun")

\* The three reasons for which an ability cannot be used, as the claims
\* spell them.
Unusable(ab, ch) ==
    ab.current_cooldown > 0 \/ ch.mana < ab.mana_cost \/ Frozen(ch)

\* C2: a use while the ability is on cooldown, the caster lacks the mana or
\* the caster is frozen or stunned changes no character and no ability, and
\* returns the "unable to act" message exactly when the caster is
\* action-prevented and the "cannot use" message otherwise.
C2_FailedUseIsNoOp ==
    [][(last'.op = "use"
        /\ Unusable(ability[last'.args.ability], chars[last'.args.ch]))
       => /\ chars' = chars
          /\ ability' = ability
          /\ last'.ret = IF Frozen(chars[last'.args.ch])
                         THEN <<Msg("unable to act", 0)>>
                         ELSE <<Msg("cannot use", 0)>>]_vars

\* Reached: a use on cooldown, with the mana at hand, answered "cannot use".
C2_Witness ==
    /\ last.op = "use"
    /\ last.ret = <<Msg("cannot use", 0)>>
    /\ ability[last.args.ability].current_cooldown > 0
    /\ chars[last.args.ch].mana >= ability[last.args.ability].mana_cost

\* C3: the cooldown state machine of every Ability instance: a successful
\* use sets current_cooldown to cooldown; update_cooldowns lowers the
\* current_cooldown of each ability of the owner by exactly 1, not below 0,
\* and touches no other ability; an ability on cooldown cannot be used; after
\* k reduce_cooldown calls following a use current_cooldown is cooldown - k,
\* so the ability is ready after exactly cooldown calls; and
\* 0 <= current_cooldown <= cooldown always.
C3_CooldownInvariant ==
    \A a \in DOMAIN ability :
        /\ 0 <= ability[a].current_cooldown
        /\ ability[a].current_cooldown <= ability[a].cooldown
        /\ reduced[a] >= 0 =>
               ability[a].current_cooldown = ability[a].cooldown - reduced[a]
        /\ ability[a].current_cooldown > 0 =>
               \A c \in Chars : ~can_use(ability[a], chars[c])

C3_CooldownStep ==
    /\ (last'.op = "use" /\ ~Unusable(ability[last'.args.ability],
                                      chars[last'.args.ch]))
       => ability'[last'.args.ability].current_cooldown =
              ability[last'.args.ability].cooldown
    /\ last'.op = "update_cooldowns"
       => \A a \in DOMAIN ability :
            ability'[a].current_cooldown =
               IF a \in Range(chars[last'.args.ch].abilities)
                  /\ ability[a].current_cooldown > 0
               THEN ability[a].current_cooldown - 1
               ELSE ability[a].current_cooldown

\* C3: the cooldown of an ability is a counter between 0 and cooldown that
\* a use sets to cooldown and each reduce_cooldown lowers by one, down to 0.
C3_CooldownStateMachine == [](C3_CooldownInvariant) /\ [][C3_CooldownStep]_vars

\* Reached: an ability with cooldown 2 was used and is ready again after its
\* second reduce_cooldown.
C3_Witness ==
    /\ last.op = "update_cooldowns"
    /\ \E a \in DOMAIN ability : /\ ability[a].cooldown >= 2
                                 /\ reduced[a] = ability[a].cooldown
                                 /\ ability[a].current_cooldown = 0

\* The number of effects of a type in a list.
CountType(effects, effect_type) ==
    Cardinality({i \in 1..Len(effects) : effects[i].effect_type = effect_type})

\* C4: a status-effect list holds at most one effect per type; an
\* add_status_effect drops the effect of that type, keeps the others in
\* order and appends the new one; an ability that attaches its effect leaves
\* exactly one effect of that type on the receiver, the last of the list,
\* with the full duration of the template.
C4_OnePerTypeInvariant ==
    \A c \in Chars : \A t \in StatusEffectType :
        CountType(chars[c].status_effects, t) <= 1

C4_AddStep ==
    /\ last'.op = "add_status_effect"
       => LET c == last'.args.ch
              e == last'.args.effect
          IN  chars'[c].status_effects =
                 Append(SelectSeq(chars[c].status_effects,
                                  LAMBDA x : x.effect_type # e.effect_type), e)
    /\ (last'.op = "use" /\ \E i \in 1..Len(last'.ret) :
                               last'.ret[i].kind \in {"is affected by", "gains",
                                                      "is afflicted with"})
       => LET ab == ability[last'.args.ability]
              tpl == ab.status_effect
              c == IF ab.ability_type = "heal" \/ last'.args.target = None
                   THEN last'.args.ch ELSE last'.args.target
              l == chars'[c].status_effects
          IN  /\ l = Append(SelectSeq(chars[c].status_effects,
                                      LAMBDA x : x.effect_type # tpl.effect_type),
                            new_effect(ab))
              /\ CountType(l, tpl.effect_type) = 1
              /\ l[Len(l)].remaining_duration = tpl.duration

\* C4: at most one effect per type on every character, and every
\* application of an effect replaces the one of its type and comes last.
C4_OneEffectPerType == [](C4_OnePerTypeInvariant) /\ [][C4_AddStep]_vars

\* Reached: add_status_effect of a type the character already had, on a
\* list that holds another effect too.
C4_Witness ==
    /\ last.op = "add_status_effect"
    /\ last.args.had
    /\ LET l == chars[last.args.ch].status_effects
       IN  /\ Len(l) = 2
           /\ l[2] = last.args.effect
           /\ l[2].remaining_duration = l[2].duration

(***************************************************************************)
(* SpecDamage: take_damage and heal on a character built with the default  *)
(* arguments, whose total defense is moved by status effects.              *)
(***************************************************************************)
\* Defaults of Character.__init__ and Enemy.__init__.
DefaultHp == 100
DefaultMana == 50
DefaultAttack == 10
DefaultDefense == 5
EnemyDefaultHp == 50
EnemyDefaultMana == 20
EnemyDefaultAttack == 8
EnemyDefaultDefense == 3

\* The amounts handed to take_damage are -1..MaxDamage, to heal 1..MaxHeal.
MaxDamage == 12
MaxHeal == 2

DefenseEffects ==
    {StatusEffect("defense_boost", 1, 2), StatusEffect("vulnerability", 1, 7)}

InitDamage ==
    /\ chars = [c \in Chars |->
                  IF c = "player"
                  THEN Character(DefaultHp, DefaultMana, DefaultAttack,
                                 DefaultDefense)
                  ELSE Character(EnemyDefaultHp, EnemyDefaultMana,
                                 EnemyDefaultAttack, EnemyDefaultDefense)]
    /\ ability = <<>>
    /\ gold = 0
    /\ shop_inventory = <<>>
    /\ progress = NewProgress
    /\ drop_table = <<>>
    /\ multipliers = DefaultMultipliers
    /\ combat = NoCombat
    /\ heap = NoHeap
    /\ reduced = <<>>
    /\ last = NoCall

NextDamage ==
    \/ \E damage \in (0 - 1)..MaxDamage : TakeDamage("player", damage)
    \/ \E amount \in 1..MaxHeal : Heal("player", amount)
    \/ \E e \in DefenseEffects : AddStatusEffect("player", e)
    \/ \E e \in DefenseEffects : RemoveStatusEffect("player", e.effect_type)

SpecDamage == InitDamage /\ [][NextDamage]_vars

\* C5: take_damage(amount) returns max(1, amount - total defense), which is
\* at least 1, and leaves hp at max(0, hp - returned value); with hp 100 and
\* total defense 5, take_damage(3) returns 1 and leaves hp 99.
C5_TakeDamage ==
    [][last'.op = "take_damage"
       => LET c == last'.args.ch
              amount == last'.args.amount
              defense == get_total_defense(chars[c])
              returned == last'.ret
          IN  /\ returned >= 1
              /\ returned >= amount - defense
              /\ returned = 1 \/ returned = amount - defense
              /\ chars'[c].hp >= 0
              /\ chars'[c].hp >= chars[c].hp - returned
              /\ chars'[c].hp = 0 \/ chars'[c].hp = chars[c].hp - returned
              /\ (chars[c].hp = 100 /\ defense = 5 /\ amount = 3)
                 => (returned = 1 /\ chars'[c].hp = 99)]_vars

\* Reached: the default character, at total defense 5, after take_damage(3).
C5_Witness ==
    /\ last.op = "take_damage"
    /\ last.args.amount = 3
    /\ last.ret = 1
    /\ chars[last.args.ch].hp = 99
    /\ get_total_defense(chars[last.args.ch]) = 5

(***************************************************************************)
(* SpecAI: ai_choose_ability on an enemy that owns a few of the factory's  *)
(* abilities, in every combination of readiness, mana, hp and status       *)
(* effects of both sides; the returned ability is then used on the player, *)
(* as the combat loop of example_usage.py does.                            *)
(***************************************************************************)
FactoryAbilities ==
    [heal           |-> Ability("heal", 30, 8, 0, NoEffect),
     battle_cry     |-> Ability("buff", 0, 10, 3,
                                StatusEffect("strength_boost", 5, 15)),
     poison_dart    |-> Ability("attack", 10, 8, 1, StatusEffect("poison", 3, 5)),
     stunning_blow  |-> Ability("attack", 18, 6, 3, StatusEffect("stun", 1, 0)),
     weakness_curse |-> Ability("attack", 5, 15, 1,
                                StatusEffect("weakness", 4, 10)),
     power_strike   |-> Ability("attack", 35, 5, 2, NoEffect),
     slash          |-> Ability("attack", 15, 0, 0, NoEffect)]

\* The order in which the abilities are added to the enemy.
FactoryOrder ==
    <<"heal", "battle_cry", "poison_dart", "stunning_blow", "weakness_curse",
      "power_strike", "slash">>

\* The enemy owns at most MaxAbilities abilities.
MaxAbilities == 2

AbilityLists ==
    {SelectSeq(FactoryOrder, LAMBDA a : a \in S) :
        S \in {T \in SUBSET DOMAIN FactoryAbilities : Cardinality(T) <= MaxAbilities}}

\* One effect of each kind the policy looks at.
SelfEffects ==
    {<<>>, <<StatusEffect("strength_boost", 5, 15)>>, <<StatusEffect("stun", 1, 0)>>}

TargetEffects ==
    {SelectSeq(<<StatusEffect("poison", 3, 5), StatusEffect("stun", 1, 0),
                 StatusEffect("weakness", 4, 10)>>,
               LAMBDA e : e.effect_type \in S) :
        S \in SUBSET {"poison", "stun", "weakness"}}

InitAI ==
    /\ \E abilities \in AbilityLists :
       \E hp \in {10, 13} :
       \E mana \in {0, 9, 20} :
       \E effects \in SelfEffects :
       \E target_effects \in TargetEffects :
          chars = [c \in Chars |->
                     IF c = "enemy"
                     THEN [Character(EnemyDefaultHp, EnemyDefaultMana,
                                     EnemyDefaultAttack, EnemyDefaultDefense)
                             EXCEPT !.abilities = abilities, !.hp = hp,
                                    !.mana = mana, !.status_effects = effects]
                     ELSE [Character(DefaultHp, DefaultMana, DefaultAttack,
                                     DefaultDefense)
                             EXCEPT !.status_effects = target_effects]]
    /\ \E used \in SUBSET Range(chars["enemy"].abilities) :
          ability = [a \in DOMAIN FactoryAbilities |->
                       IF a \in used THEN start_cooldown(FactoryAbilities[a])
                       ELSE FactoryAbilities[a]]
    /\ gold = 0
    /\ shop_inventory = <<>>
    /\ progress = NewProgress
    /\ drop_table = <<>>
    /\ multipliers = DefaultMultipliers
    /\ combat = NoCombat
    /\ heap = NoHeap
    /\ reduced = [a \in DOMAIN FactoryAbilities |-> -1]
    /\ last = NoCall

\* "if enemy_ability: result = enemy_ability.use(enemy, player)".
UseChosen ==
    /\ last.op = "ai_choose_ability"
    /\ last.ret # None
    /\ Use("enemy", last.ret, "player")

\* One turn of the enemy from each initial state.
NextAI ==
    \/ (last = NoCall /\ AiChooseAbility)
    \/ UseChosen

SpecAI == InitAI /\ [][NextAI]_vars

\* The abilities of the enemy's list that none of the three reasons blocks.
UsableByEnemy ==
    {a \in Range(chars["enemy"].abilities) :
        ~Unusable(ability[a], chars["enemy"])}

HasTemplate(a, types) ==
    /\ ability[a].status_effect # NoEffect
    /\ ability[a].status_effect.effect_type \in types

TargetLacks(types) ==
    \A t \in types : ~has_status_effect(chars["player"], t)

\* The abilities tier k of the ladder offers in the current state ({} when
\* its condition does not hold).
TierOffer(k) ==
    CASE k = 1 -> IF 4 * chars["enemy"].hp < chars["enemy"].max_hp
                  THEN {a \in UsableByEnemy : ability[a].ability_type = "heal"}
                  ELSE {}
      [] k = 2 -> IF \A t \in {"strength_boost", "defense_boost", "speed_boost",
                               "regeneration"} :
                        ~has_status_effect(chars["enemy"], t)
                  THEN {a \in UsableByEnemy : ability[a].ability_type = "buff"}
                  ELSE {}
      [] k = 3 -> IF TargetLacks({"poison", "burn"})
                  THEN {a \in UsableByEnemy : HasTemplate(a, {"poison", "burn"})}
                  ELSE {}
      [] k = 4 -> IF TargetLacks({"stun", "freeze"})
                  THEN {a \in UsableByEnemy : HasTemplate(a, {"stun", "freeze"})}
                  ELSE {}
      [] k = 5 -> IF TargetLacks({"weakness", "vulnerability"})
                  THEN {a \in UsableByEnemy :
                          HasTemplate(a, {"weakness", "vulnerability"})}
                  ELSE {}
      [] k = 6 -> {a \in UsableByEnemy : /\ ability[a].ability_type = "attack"
                                         /\ ability[a].power >= 20}
      [] k = 7 -> {a \in UsableByEnemy : ability[a].ability_type = "attack"}
      [] k = 8 -> UsableByEnemy

\* C6: the ability ai_choose_ability returns is one the first tier with a
\* non-empty offer makes; an enemy at hp = 0.2 * max_hp with a usable Heal
\* and a usable Attack gets a Heal.
C6_AiPriorityLadder ==
    (last.op = "ai_choose_ability" /\ last.ret # None)
    => /\ \E k \in 1..8 : /\ last.ret \in TierOffer(k)
                          /\ \A j \in 1..(k - 1) : TierOffer(j) = {}
       /\ (/\ 5 * chars["enemy"].hp = chars["enemy"].max_hp
           /\ \E a \in UsableByEnemy : ability[a].ability_type = "heal"
           /\ \E a \in UsableByEnemy : ability[a].ability_type = "attack")
          => ability[last.ret].ability_type = "heal"

\* Reached: the enemy at a fifth of its hp, a Heal and an Attack usable, and
\* the policy has answered.
C6_Witness ==
    /\ last.op = "ai_choose_ability"
    /\ 5 * chars["enemy"].hp = chars["enemy"].max_hp
    /\ \E a \in UsableByEnemy : ability[a].ability_type = "heal"
    /\ \E a \in UsableByEnemy : ability[a].ability_type = "attack"
    /\ ability[last.ret].ability_type = "heal"

\* The messages a failed use returns.
FailureMessages == {<<Msg("unable to act", 0)>>, <<Msg("cannot use", 0)>>}

\* C7: ai_choose_ability returns None exactly when the enemy can use none of
\* its abilities (so always when it is frozen or stunned); the ability it
\* returns is in the enemy's list and usable, and the use that follows
\* succeeds; the call changes no character and no ability.
C7_AnswerInvariant ==
    last.op = "ai_choose_ability"
    => /\ last.ret = None <=> UsableByEnemy = {}
       /\ Frozen(chars["enemy"]) => last.ret = None
       /\ last.ret # None => last.ret \in UsableByEnemy

C7_AnswerStep ==
    /\ last'.op = "ai_choose_ability"
       => /\ chars' = chars /\ ability' = ability /\ reduced' = reduced
          /\ gold' = gold /\ shop_inventory' = shop_inventory
    /\ (last.op = "ai_choose_ability" /\ last'.op = "use")
       => /\ last'.args.ability = last.ret
          /\ last'.ret \notin FailureMessages
          /\ chars'["enemy"].mana =
                chars["enemy"].mana - ability[last.ret].mana_cost
          /\ ability'[last.ret].current_cooldown = ability[last.ret].cooldown

\* C7: ai_choose_ability answers None or a usable ability of the enemy,
\* changes nothing, and the use of its answer succeeds.
C7_AiReturnsUsable == [](C7_AnswerInvariant) /\ [][C7_AnswerStep]_vars

\* Reached: the ability the policy returned, one that costs mana, was used
\* with success by an enemy that owns two abilities.
C7_Witness ==
    /\ last.op = "use"
    /\ last.args.ch = "enemy"
    /\ last.ret \notin FailureMessages
    /\ ability[last.args.ability].mana_cost > 0
    /\ Len(chars["enemy"].abilities) = 2

(***************************************************************************)
(* SpecItems: a player who is given, buys, sells, equips and unequips      *)
(* items.                                                                  *)
(***************************************************************************)
\* What an unequip_item that follows an equip_item of the same slot undoes.
NoUndo == [valid |-> FALSE, item |-> None, occupied |-> FALSE,
           attack |-> 0, defense |-> 0]

AddItem(c, item) ==
    /\ chars' = [chars EXCEPT ![c].inventory = Append(@, item)]
    /\ last' = Call("add_item", [ch |-> c, item |-> item], None)
    /\ UNCHANGED <<ability, gold, shop_inventory, reduced>>
    /\ UNCHANGED <<progress, drop_table, multipliers, combat, heap>>

\* equip_item(item, slot); the record keeps what held before the call.
EquipItem(c, item, slot) ==
    LET r == equip_item(chars[c], item, slot)
        s == slot_of(item, slot)
    IN  /\ chars' = [chars EXCEPT ![c] = r.ch]
        /\ last' = Call("equip_item",
                        [ch |-> c, item |-> item, slot |-> s,
                         held |-> in_inventory(chars[c], item),
                         occupied |-> chars[c].equipped[s] # None,
                         attack |-> chars[c].attack,
                         defense |-> chars[c].defense],
                        IF r.raised THEN "TypeError" ELSE None)
        /\ UNCHANGED <<ability, gold, shop_inventory, reduced>>
        /\ UNCHANGED <<progress, drop_table, multipliers, combat, heap>>

UnequipItem(c, slot) ==
    LET r == unequip_item(chars[c], slot)
    IN  /\ chars' = [chars EXCEPT ![c] = r.ch]
        /\ last' = Call("unequip_item",
                        [ch |-> c, slot |-> slot,
                         undoes |-> IF /\ last.op = "equip_item"
                                       /\ last.args.ch = c
                                       /\ last.args.slot = slot
                                       /\ last.args.held
                                    THEN [valid |-> TRUE,
                                          item |-> last.args.item,
                                          occupied |-> last.args.occupied,
                                          attack |-> last.args.attack,
                                          defense |-> last.args.defense]
                                    ELSE NoUndo],
                        IF r.raised THEN "TypeError" ELSE None)
        /\ UNCHANGED <<ability, gold, shop_inventory, reduced>>
        /\ UNCHANGED <<progress, drop_table, multipliers, combat, heap>>

\* Shop.buy_item(player, item), with Player.spend_gold, Shop.remove_item and
\* Character.add_item.
BuyItem(item) ==
    LET paid == spend_gold(gold, get_buy_price(item))
        ok == item \in Range(shop_inventory) /\ paid.ok
    IN  /\ IF ok
           THEN /\ gold' = paid.gold
                /\ shop_inventory' = remove_item(shop_inventory, item)
                /\ chars' = [chars EXCEPT !["player"].inventory = Append(@, item)]
           ELSE UNCHANGED <<gold, shop_inventory, chars>>
        /\ last' = Call("buy_item", [ch |-> "player", item |-> item], ok)
        /\ UNCHANGED <<ability, reduced>>
        /\ UNCHANGED <<progress, drop_table, multipliers, combat, heap>>

\* Shop.sell_item(player, item), with Player.add_gold and Shop.add_item.
SellItem(item) ==
    LET r == sell_item(chars["player"], gold, shop_inventory, item)
    IN  /\ gold' = r.gold
        /\ shop_inventory' = r.stock
        /\ chars' = [chars EXCEPT !["player"] = r.ch]
        /\ last' = Call("sell_item", [ch |-> "player", item |-> item], r.ok)
        /\ UNCHANGED <<ability, reduced>>
        /\ UNCHANGED <<progress, drop_table, multipliers, combat, heap>>

\* player.add_gold(StartGold) before the shop opens.
StartGold == 40
\* add_item hands out an item while fewer than MaxGiven units of it exist.
MaxGiven == 1

\* The units of an item held by the player and the shop together.
Units(item) ==
    Cardinality({i \in 1..Len(chars["player"].inventory) :
                    chars["player"].inventory[i] = item})
    + Cardinality({s \in Slots : chars["player"].equipped[s] = item})
    + Cardinality({i \in 1..Len(shop_inventory) : shop_inventory[i] = item})

\* The shop's stock: shop.add_item(sword, 2) and one potion of each kind.
ShopStock == <<"sword", "sword", "hpotion", "mpotion">>

\* The items handed to add_item directly.
GivenItems == {"blade"}

InitItems ==
    /\ chars = [c \in Chars |->
                  IF c = "player"
                  THEN Character(DefaultHp, DefaultMana, DefaultAttack,
                                 DefaultDefense)
                  ELSE Character(EnemyDefaultHp, EnemyDefaultMana,
                                 EnemyDefaultAttack, EnemyDefaultDefense)]
    /\ ability = <<>>
    /\ gold = StartGold
    /\ shop_inventory = ShopStock
    /\ progress = NewProgress
    /\ drop_table = <<>>
    /\ multipliers = DefaultMultipliers
    /\ combat = NoCombat
    /\ heap = NoHeap
    /\ reduced = <<>>
    /\ last = NoCall

NextItems ==
    \/ \E item \in GivenItems :
         Units(item) < MaxGiven /\ AddItem("player", item)
    \/ \E item \in Items : EquipItem("player", item, None)
    \/ \E slot \in Slots : UnequipItem("player", slot)
    \/ \E item \in Items : BuyItem(item)
    \/ \E item \in Items : SellItem(item)

SpecItems == InitItems /\ [][NextItems]_vars

\* What an equip_item of an inventory item followed at once by the
\* unequip_item of its slot must leave: the base attack and defense of
\* before the equip, the item in the inventory and the slot empty.
RoundTripRestored ==
    LET c == last.args.ch
        u == last.args.undoes
    IN  /\ chars[c].attack = u.attack
        /\ chars[c].defense = u.defense
        /\ in_inventory(chars[c], u.item)
        /\ chars[c].equipped[last.args.slot] = None

\* C8 as stated: the round trip restores the character for any item of the
\* inventory.
C8_RoundTripAnyItem ==
    (last.op = "unequip_item" /\ last.args.undoes.valid) => RoundTripRestored

\* C8, amended: the round trip restores the character for any item of the
\* inventory whose slot was empty before the equip.
C8_RoundTripEmptySlot ==
    (/\ last.op = "unequip_item"
     /\ last.args.undoes.valid
     /\ ~last.args.undoes.occupied) => RoundTripRestored

\* Reached: a weapon was equipped into the empty weapon slot, which raised
\* the base attack, and unequipped at once.
C8_Witness ==
    /\ last.op = "unequip_item"
    /\ last.args.undoes.valid
    /\ ~last.args.undoes.occupied
    /\ stats_get(ItemDef(last.args.undoes.item).stats, "attack") > 0
    /\ chars[last.args.ch].attack = last.args.undoes.attack

\* C9: no item is both in a character's inventory and in its equipped
\* mapping.
C9_InventoryOrEquipped ==
    \A c \in Chars : \A s \in Slots :
        chars[c].equipped[s] # None
        => ~in_inventory(chars[c], chars[c].equipped[s])

\* C10: no call ends in a fault: equip_item and unequip_item return
\* normally for every item and slot.
C10_NoFault ==
    last.op \in {"equip_item", "unequip_item"} => last.ret # "TypeError"

(***************************************************************************)
(* SpecLevels: the player gains experience.                                *)
(***************************************************************************)
\* The model follows the player up to this level.
MaxLevel == 3

\* player.gain_experience(exp).
GainExperience(exp) ==
    LET pr == gain_experience(progress, exp)
    IN  /\ pr.level <= MaxLevel
        /\ progress' = pr
        /\ \E inc \in IncreaseRolls(pr.level - progress.level) :
             chars' = [chars EXCEPT !["player"] = level_up_stats(@, inc)]
        /\ last' = Call("gain_experience",
                        [ch |-> "player", exp |-> exp, before |-> progress], None)
        /\ UNCHANGED <<ability, gold, shop_inventory, reduced>>
        /\ UNCHANGED <<drop_table, multipliers, combat, heap>>

\* The amounts handed to gain_experience.
ExpInputs == {100, 250}

InitLevels ==
    /\ chars = [c \in Chars |->
                  IF c = "player"
                  THEN Character(DefaultHp, DefaultMana, DefaultAttack,
                                 DefaultDefense)
                  ELSE Character(EnemyDefaultHp, EnemyDefaultMana,
                                 EnemyDefaultAttack, EnemyDefaultDefense)]
    /\ ability = <<>>
    /\ gold = 0
    /\ shop_inventory = <<>>
    /\ progress = NewProgress
    /\ drop_table = <<>>
    /\ multipliers = DefaultMultipliers
    /\ combat = NoCombat
    /\ heap = NoHeap
    /\ reduced = <<>>
    /\ last = NoCall

NextLevels == \E exp \in ExpInputs : GainExperience(exp)

SpecLevels == InitLevels /\ [][NextLevels]_vars

\* The threshold after n level-ups from threshold t, and the experience the
\* n level-ups take.
RECURSIVE ThresholdAfter(_, _)
ThresholdAfter(t, n) ==
    IF n = 0 THEN t ELSE ThresholdAfter((t * 12) \div 10, n - 1)

RECURSIVE ExperienceTaken(_, _)
ExperienceTaken(t, n) ==
    IF n = 0 THEN 0 ELSE t + ExperienceTaken((t * 12) \div 10, n - 1)

\* C11: gain_experience(exp) adds exp and levels up while experience >=
\* threshold: each level-up takes the current threshold off the experience,
\* adds 1 to level and 2 to stat_points and replaces the threshold t by
\* trunc(t * 1.2); from experience 0 and threshold 100, gain_experience(250)
\* ends at level + 2, experience 30, threshold 144, stat_points + 4.
C11_GainExperience ==
    [][last'.op = "gain_experience"
       => LET b == last'.args.before
              n == progress'.level - b.level
          IN  /\ n >= 0
              /\ progress'.experience < progress'.experience_to_next_level
              /\ progress'.experience_to_next_level =
                     ThresholdAfter(b.experience_to_next_level, n)
              /\ progress'.experience =
                     b.experience + last'.args.exp
                     - ExperienceTaken(b.experience_to_next_level, n)
              /\ n > 0 => progress'.experience >= 0
              /\ progress'.stat_points = b.stat_points + 2 * n
              /\ (b = NewProgress /\ last'.args.exp = 250)
                 => (/\ progress'.level = b.level + 2
                     /\ progress'.experience = 30
                     /\ progress'.experience_to_next_level = 144
                     /\ progress'.stat_points = b.stat_points + 4)]_vars

\* Reached: gain_experience(250) on the new player, which levelled up twice.
C11_Witness ==
    /\ last.op = "gain_experience"
    /\ last.args.before = NewProgress
    /\ last.args.exp = 250
    /\ progress.level = 3
    /\ progress.experience = 30

\* C12: buy_item(player, item) returns False and changes neither the
\* player's gold, nor the player's inventory, nor the shop's stock when the
\* item is not in the stock or the gold is below get_buy_price(item).
C12_FailedBuyIsNoOp ==
    [][(/\ last'.op = "buy_item"
        /\ \/ last'.args.item \notin Range(shop_inventory)
           \/ gold < get_buy_price(last'.args.item))
       => (/\ last'.ret = FALSE
           /\ gold' = gold
           /\ chars' = chars
           /\ shop_inventory' = shop_inventory)]_vars

\* Reached: the shop has the item, the player's gold is short of its price,
\* and buy_item has answered False.
C12_Witness ==
    /\ last.op = "buy_item"
    /\ last.ret = FALSE
    /\ last.args.item \in Range(shop_inventory)
    /\ gold > 0
    /\ gold < get_buy_price(last.args.item)

\* The number of occurrences of x in a list.
Count(list, x) == Cardinality({i \in 1..Len(list) : list[i] = x})

\* The player has the item in a slot of equipped.
IsEquipped(item) == \E s \in Slots : chars["player"].equipped[s] = item

\* C13 as stated: sell_item succeeds whenever the player holds the item, be
\* it in the inventory or equipped.
C13_SellWhateverHeld ==
    [][(/\ last'.op = "sell_item"
        /\ \/ in_inventory(chars["player"], last'.args.item)
           \/ IsEquipped(last'.args.item))
       => last'.ret = TRUE]_vars

\* C13, amended: sell_item succeeds exactly when the item is in the player's
\* inventory: it returns True, takes one unit out of the inventory, adds
\* get_sell_price(item) to the gold and one unit to the shop's stock, and
\* leaves equipped alone; when the item is not in the inventory (equipped or
\* not) it returns False and changes nothing.
C13_SellFromInventory ==
    [][last'.op = "sell_item"
       => LET item == last'.args.item
              before == chars["player"]
              after == chars'["player"]
          IN  IF in_inventory(before, item)
              THEN /\ last'.ret = TRUE
                   /\ gold' = gold + get_sell_price(item)
                   /\ shop_inventory' = Append(shop_inventory, item)
                   /\ \A i \in Items :
                        Count(after.inventory, i) =
                           Count(before.inventory, i) - (IF i = item THEN 1 ELSE 0)
                   /\ after.equipped = before.equipped
                   /\ after.attack = before.attack
              ELSE /\ last'.ret = FALSE
                   /\ gold' = gold
                   /\ chars' = chars
                   /\ shop_inventory' = shop_inventory]_vars

\* Reached: the player sold one of two swords of the inventory, and the
\* other one is still there.
C13_Witness ==
    /\ last.op = "sell_item"
    /\ last.ret = TRUE
    /\ last.args.item = "sword"
    /\ in_inventory(chars["player"], "sword")
    /\ "sword" \in Range(shop_inventory)

(***************************************************************************)
(* SpecDrops: the enemy's drop table.  A chance and a random.random()      *)
(* value are counted in tenths; a roll lies in [0, 1), so from 0 to 9.     *)
(***************************************************************************)
\* Enemy.add_drop(item, chance).
add_drop(table, item, chance) ==
    Append(table, [item |-> item, chance |-> chance])

\* A get_drops whose trial succeeds when the roll is at most the chance.
RECURSIVE get_drops_inclusive(_, _)
get_drops_inclusive(table, rolls) ==
    IF table = <<>> THEN <<>>
    ELSE (IF Head(rolls) <= Head(table).chance THEN <<Head(table).item>>
          ELSE <<>>)
         \o get_drops_inclusive(Tail(table), Tail(rolls))

\* Enemy.get_drops(): rolls[i] is the random.random() drawn for entry i.
RECURSIVE get_drops(_, _)
get_drops(table, rolls) ==
    IF table = <<>> THEN <<>>
    ELSE (IF Head(rolls) < Head(table).chance THEN <<Head(table).item>>
          ELSE <<>>)
         \o get_drops(Tail(table), Tail(rolls))

AddDrop(item, chance) ==
    /\ drop_table' = add_drop(drop_table, item, chance)
    /\ last' = Call("add_drop", [ch |-> "enemy", item |-> item,
                                 chance |-> chance], None)
    /\ UNCHANGED <<chars, ability, gold, shop_inventory, reduced>>
    /\ UNCHANGED <<progress, multipliers, combat, heap>>

GetDrops(rolls) ==
    /\ last' = Call("get_drops", [ch |-> "enemy", rolls |-> rolls],
                    get_drops(drop_table, rolls))
    /\ UNCHANGED <<chars, ability, gold, shop_inventory, reduced>>
    /\ UNCHANGED <<progress, drop_table, multipliers, combat, heap>>

\* The longest drop table of the model.
MaxDrops == 2

\* Chances 0.0, 0.5 and 1.0; rolls 0.0, 0.5 and 0.9.
DropChances == {0, 5, 10}
DropRolls == {0, 5, 9}
DropItems == {"gem", "hpotion"}

InitDrops ==
    /\ chars = [c \in Chars |->
                  IF c = "player"
                  THEN Character(DefaultHp, DefaultMana, DefaultAttack,
                                 DefaultDefense)
                  ELSE Character(EnemyDefaultHp, EnemyDefaultMana,
                                 EnemyDefaultAttack, EnemyDefaultDefense)]
    /\ ability = <<>>
    /\ gold = 0
    /\ shop_inventory = <<>>
    /\ progress = NewProgress
    /\ drop_table = <<>>
    /\ multipliers = DefaultMultipliers
    /\ combat = NoCombat
    /\ heap = NoHeap
    /\ reduced = <<>>
    /\ last = NoCall

NextDrops ==
    \/ \E item \in DropItems : \E chance \in DropChances :
         Len(drop_table) < MaxDrops /\ AddDrop(item, chance)
    \/ \E rolls \in [1..Len(drop_table) -> DropRolls] : GetDrops(rolls)

SpecDrops == InitDrops /\ [][NextDrops]_vars

\* The entries whose trial succeeds.
Succeeds(rolls) ==
    {i \in 1..Len(drop_table) : rolls[i] < drop_table[i].chance}

\* C14: get_drops returns, in drop-table order, exactly the items of the
\* entries whose own roll is below their chance: an entry with chance 1.0 is
\* returned on every call, one with chance 0.0 on none; the call leaves the
\* drop table as it was.
C14_GetDrops ==
    [][last'.op = "get_drops"
       => LET rolls == last'.args.rolls
              won == Succeeds(rolls)
              drops == last'.ret
          IN  /\ Len(drops) = Cardinality(won)
              /\ \A i \in won :
                   drops[Cardinality({j \in won : j <= i})] = drop_table[i].item
              /\ \A i \in 1..Len(drop_table) :
                   /\ drop_table[i].chance = 10 => i \in won
                   /\ drop_table[i].chance = 0 => i \notin won
              /\ drop_table' = drop_table]_vars

\* Reached: a table with an impossible entry before a sure one of another
\* item; the call made the lowest roll for both and returned the sure one.
C14_Witness ==
    /\ last.op = "get_drops"
    /\ Len(drop_table) = 2
    /\ drop_table[1].chance = 0
    /\ drop_table[2].chance = 10
    /\ drop_table[1].item # drop_table[2].item
    /\ last.args.rolls = <<0, 0>>
    /\ last.ret = <<drop_table[2].item>>

(***************************************************************************)
(* SpecPrices: the prices of a shop whose multipliers were set to          *)
(* multiples of one half.                                                  *)
(***************************************************************************)
GetBuyPrice(item) ==
    /\ last' = Call("get_buy_price", [item |-> item], get_buy_price(item))
    /\ UNCHANGED <<chars, ability, gold, shop_inventory, reduced>>
    /\ UNCHANGED <<progress, drop_table, multipliers, combat, heap>>

GetSellPrice(item) ==
    /\ last' = Call("get_sell_price", [item |-> item], get_sell_price(item))
    /\ UNCHANGED <<chars, ability, gold, shop_inventory, reduced>>
    /\ UNCHANGED <<progress, drop_table, multipliers, combat, heap>>

\* shop.buy_price_multiplier and shop.sell_price_multiplier: 0.0, 0.5, 1.0,
\* 1.5 and 2.0.
Multipliers == {0, 5, 10, 15, 20}

InitPrices ==
    /\ chars = [c \in Chars |->
                  IF c = "player"
                  THEN Character(DefaultHp, DefaultMana, DefaultAttack,
                                 DefaultDefense)
                  ELSE Character(EnemyDefaultHp, EnemyDefaultMana,
                                 EnemyDefaultAttack, EnemyDefaultDefense)]
    /\ ability = <<>>
    /\ gold = 0
    /\ shop_inventory = <<>>
    /\ progress = NewProgress
    /\ drop_table = <<>>
    /\ multipliers \in [buy : Multipliers, sell : Multipliers]
    /\ combat = NoCombat
    /\ heap = NoHeap
    /\ reduced = <<>>
    /\ last = NoCall

NextPrices ==
    \/ \E item \in Items : GetBuyPrice(item)
    \/ \E item \in Items : GetSellPrice(item)

SpecPrices == InitPrices /\ [][NextPrices]_vars

\* p is floor(value * tenths / 10).
IsFloorOf(p, value, tenths) ==
    /\ 10 * p <= value * tenths
    /\ value * tenths < 10 * (p + 1)

\* C15: get_buy_price(item) is floor(item.value * buy_price_multiplier) and
\* get_sell_price(item) is floor(item.value * sell_price_multiplier); with
\* the buy multiplier 1.5 an item of value 100 costs 150; with the default
\* multipliers 1.0 and 0.5 the sell price is at most the buy price.
C15_Prices ==
    /\ last.op = "get_buy_price"
       => /\ IsFloorOf(last.ret, ItemDef(last.args.item).value, multipliers.buy)
          /\ (multipliers.buy = 15 /\ ItemDef(last.args.item).value = 100)
             => last.ret = 150
    /\ last.op = "get_sell_price"
       => /\ IsFloorOf(last.ret, ItemDef(last.args.item).value, multipliers.sell)
          /\ multipliers = DefaultMultipliers
             => last.ret <= get_buy_price(last.args.item)

\* Reached: the price of the gem, of value 100, at the buy multiplier 1.5.
C15_Witness ==
    /\ last.op = "get_buy_price"
    /\ multipliers.buy = 15
    /\ ItemDef(last.args.item).value = 100
    /\ last.ret = 150

(***************************************************************************)
(* SpecEffects: status effects are put on the player, processed round by   *)
(* round and taken off.                                                    *)
(***************************************************************************)
\* Constructor arguments of the player: hp and defense.
EffectHp == 3
EffectDefense == 1

\* The effects handed to add_status_effect: two that damage, one that
\* heals, one that prevents action, one that lowers the defense and one
\* that has no message.
EffectPool ==
    {StatusEffect("poison", 2, 3), StatusEffect("burn", 1, 2),
     StatusEffect("regeneration", 2, 2), StatusEffect("stun", 1, 0),
     StatusEffect("vulnerability", 2, 1), StatusEffect("speed_boost", 3, 1)}

InitEffects ==
    /\ chars = [c \in Chars |->
                  IF c = "player"
                  THEN Character(EffectHp, 0, 0, EffectDefense)
                  ELSE Character(EnemyDefaultHp, EnemyDefaultMana,
                                 EnemyDefaultAttack, EnemyDefaultDefense)]
    /\ ability = <<>>
    /\ gold = 0
    /\ shop_inventory = <<>>
    /\ progress = NewProgress
    /\ drop_table = <<>>
    /\ multipliers = DefaultMultipliers
    /\ combat = NoCombat
    /\ heap = NoHeap
    /\ reduced = <<>>
    /\ last = NoCall

NextEffects ==
    \/ \E e \in EffectPool : AddStatusEffect("player", e)
    \/ \E e \in EffectPool : RemoveStatusEffect("player", e.effect_type)
    \/ ProcessStatusEffects("player")
    \/ Heal("player", 1)

SpecEffects == InitEffects /\ [][NextEffects]_vars

\* The kind of the message apply_effect returns for an effect ("": none).
ApplyKind(e) ==
    CASE e.effect_type = "poison" -> "poison damage"
      [] e.effect_type = "burn" -> "burn damage"
      [] e.effect_type = "regeneration" -> "regenerates"
      [] e.effect_type = "freeze" -> "frozen"
      [] e.effect_type = "stun" -> "stunned"
      [] e.effect_type \in {"strength_boost", "weakness", "defense_boost",
                            "vulnerability"} -> "affected by"
      [] OTHER -> ""

\* A list of effects with every remaining_duration lowered by 1.
Ticked(effects) ==
    [i \in 1..Len(effects) |->
        [effects[i] EXCEPT !.remaining_duration = @ - 1]]

\* C16: one process_status_effects call applies every effect of the list
\* once, in stored order, and lowers each remaining_duration by exactly 1;
\* then it removes exactly the effects whose remaining_duration is <= 0, in
\* that order; in the returned messages the apply messages come in stored
\* order, every "worn off" message comes after them, in stored order too,
\* and the surviving effects keep their order.
C16_ProcessOrder ==
    [][last'.op = "process_status_effects"
       => LET c == last'.args.ch
              old == chars[c].status_effects
              msgs == last'.ret
              speaking == {i \in 1..Len(old) : ApplyKind(old[i]) # ""}
              expiring == {i \in 1..Len(old) : old[i].remaining_duration <= 1}
          IN  /\ chars'[c].status_effects =
                    SelectSeq(Ticked(old), LAMBDA e : e.remaining_duration > 0)
              /\ Len(msgs) = Cardinality(speaking) + Cardinality(expiring)
              /\ \A i \in speaking :
                   msgs[Cardinality({j \in speaking : j <= i})].kind =
                      ApplyKind(old[i])
              /\ \A i \in expiring :
                   msgs[Cardinality(speaking)
                        + Cardinality({j \in expiring : j <= i})] =
                      WornOffMsg(old[i])
              /\ \A a \in 1..Len(msgs) : \A b \in a..Len(msgs) :
                   msgs[a].kind = "worn off" => msgs[b].kind = "worn off"]_vars

\* Reached: a pass over three effects or more in which the first effect of
\* the list wore off, a later one spoke and one survived.
C16_Witness ==
    /\ last.op = "process_status_effects"
    /\ Len(last.ret) >= 4
    /\ last.ret[1].kind = "stunned"
    /\ last.ret[2].kind = "poison damage"
    /\ last.ret[Len(last.ret)].kind = "worn off"
    /\ last.ret[Len(last.ret) - 1] = WornOffMsg(StatusEffect("stun", 1, 0))
    /\ Len(chars["player"].status_effects) >= 1

\* Every effect of every list has 0 <= remaining_duration <= duration, and
\* none is left at 0 or below by a process_status_effects call.
C17_DurationInvariant ==
    \A c \in Chars : \A i \in 1..Len(chars[c].status_effects) :
        LET e == chars[c].status_effects[i]
        IN  /\ 0 <= e.remaining_duration
            /\ e.remaining_duration <= e.duration
            /\ (last.op = "process_status_effects" /\ last.args.ch = c)
               => e.remaining_duration >= 1

\* An effect starts with its full duration; each process_status_effects
\* call of its owner applies it (it has a turn left) and takes one turn off,
\* and removes it exactly when that was its last turn; no other call changes
\* a remaining duration.
C17_DurationStep ==
    /\ last'.op = "add_status_effect"
       => LET l == chars'[last'.args.ch].status_effects
          IN  /\ l[Len(l)].remaining_duration = last'.args.effect.duration
              /\ last'.args.effect.duration >= 1
    /\ last'.op = "process_status_effects"
       => LET c == last'.args.ch
              old == chars[c].status_effects
              new == chars'[c].status_effects
          IN  \A i \in 1..Len(old) :
                /\ old[i].remaining_duration >= 1
                /\ IF old[i].remaining_duration = 1
                   THEN \A j \in 1..Len(new) :
                          new[j].effect_type # old[i].effect_type
                   ELSE \E j \in 1..Len(new) :
                          new[j] = [old[i] EXCEPT !.remaining_duration = @ - 1]
    /\ last'.op \notin {"process_status_effects", "add_status_effect",
                        "remove_status_effect", "use"}
       => \A c \in Chars : chars'[c].status_effects = chars[c].status_effects

\* C17: an effect attached with duration d >= 1, and not replaced or
\* removed, is applied in d process_status_effects calls of its owner in a
\* row and is removed at the end of the d-th; 0 <= remaining_duration <=
\* duration always, and no effect with remaining_duration <= 0 survives a
\* process_status_effects call.
C17_EffectLifetime == [](C17_DurationInvariant) /\ [][C17_DurationStep]_vars

\* Reached: the effect of duration 3 wore off in a process_status_effects
\* call, its third.
C17_Witness ==
    /\ last.op = "process_status_effects"
    /\ \E k \in 1..Len(last.ret) :
         last.ret[k] = WornOffMsg(StatusEffect("speed_boost", 3, 1))
    /\ ~has_status_effect(chars["player"], "speed_boost")

\* C18: a Poison or Burn tick on a live owner lowers the owner's hp by
\* exactly the effect's power (capped at the hp it had), the amount named in
\* the damage message.
C18_TickDealsPower ==
    [][(/\ last'.op = "process_status_effects"
        /\ chars[last'.args.ch].hp > 0
        /\ Len(chars[last'.args.ch].status_effects) = 1
        /\ chars[last'.args.ch].status_effects[1].effect_type
              \in {"poison", "burn"})
       => LET c == last'.args.ch
              e == chars[c].status_effects[1]
          IN  /\ last'.ret[1].amount = e.power
              /\ chars'[c].hp = Max(0, chars[c].hp - e.power)]_vars

\* The hp a pass over the effects leaves, from hp h, when every effect is
\* applied whatever the hp has become.
RECURSIVE HpAfter(_, _, _)
HpAfter(effects, h, ch) ==
    IF effects = <<>> THEN h
    ELSE LET e == Head(effects)
             next == IF e.effect_type \in {"poison", "burn"}
                     THEN Max(0, h - Max(1, e.power - get_total_defense(ch)))
                     ELSE IF e.effect_type = "regeneration"
                     THEN Min(ch.max_hp, h + e.power)
                     ELSE h
         IN  HpAfter(Tail(effects), next, ch)

\* C19: process_status_effects does not stop when the owner's hp reaches 0
\* during the pass: every later effect is still applied and decremented, so
\* a Regeneration stored after a lethal Poison or Burn raises the hp above 0
\* within the same pass.
C19_NoEarlyExit ==
    [][last'.op = "process_status_effects"
       => LET c == last'.args.ch
              old == chars[c].status_effects
              n == Len(old)
          IN  /\ chars'[c].hp = HpAfter(old, chars[c].hp, chars[c])
              /\ Len(chars'[c].status_effects) =
                    Cardinality({i \in 1..n : old[i].remaining_duration > 1})
              /\ (/\ n >= 2
                  /\ chars[c].hp > 0
                  /\ old[n].effect_type = "regeneration"
                  /\ old[n].power > 0
                  /\ HpAfter(SubSeq(old, 1, n - 1), chars[c].hp, chars[c]) = 0)
                 => chars'[c].hp > 0]_vars

\* Reached: the owner went into the pass alive, a Poison tick took the hp to
\* 0 and the Regeneration stored after it brought it back above 0.
C19_Witness ==
    /\ last.op = "process_status_effects"
    /\ last.args.hp \in 1..2
    /\ Len(last.ret) >= 2
    /\ last.ret[1] = Msg("poison damage", 3)
    /\ last.ret[2] = Msg("regenerates", 2)
    /\ chars["player"].hp = 2

(***************************************************************************)
(* SpecCombat: the combat loop of demonstrate_combat (example_usage.py),   *)
(* one action per phase of a round; combat.pc is the phase to run next.    *)
(***************************************************************************)
\* "round_num <= 8".
MaxRounds == 8
\* "random.randint(-3, 3)" of the enemy's basic attack.
BasicRollLo == -3
BasicRollHi == 3
\* exp_reward and gold_reward of Enemy.__init__.
EnemyExpReward == 25
EnemyGoldReward == 10

\* The loop test.
\* A loop condition that does not look at the player's hp.
LoopRunsWhileEnemyLives ==
    /\ is_alive(chars["enemy"])
    /\ combat.round_num <= MaxRounds

LoopRuns ==
    /\ is_alive(chars["player"])
    /\ is_alive(chars["enemy"])
    /\ combat.round_num <= MaxRounds

\* "player.process_status_effects(); enemy.process_status_effects()".
RoundEffects ==
    /\ combat.pc = "round"
    /\ LoopRuns
    /\ LET p == process_status_effects(chars["player"])
           e == process_status_effects(chars["enemy"])
       IN  /\ chars' = [chars EXCEPT !["player"] = p.ch, !["enemy"] = e.ch]
           /\ last' = Call("round_effects", [ch |-> "player"],
                           p.messages \o e.messages)
    /\ combat' = [combat EXCEPT !.pc = "player_turn"]
    /\ UNCHANGED <<ability, gold, shop_inventory, reduced>>
    /\ UNCHANGED <<progress, drop_table, multipliers, heap>>

\* The player's turn: a random ability, used if can_use allows it.
PlayerTurn ==
    /\ combat.pc = "player_turn"
    /\ combat' = [combat EXCEPT !.pc = "enemy_turn"]
    /\ IF /\ chars["player"].abilities # <<>>
          /\ ~has_status_effect(chars["player"], "stun")
       THEN \E a \in Range(chars["player"].abilities) :
              IF can_use(ability[a], chars["player"])
              THEN \E roll \in Rolls(ability[a], chars["player"], TRUE) :
                     LET r == use(ability[a], chars["player"], chars["enemy"],
                                  TRUE, roll)
                     IN  /\ chars' = [chars EXCEPT !["player"] = r.caster,
                                                   !["enemy"] = r.target]
                         /\ ability' = [ability EXCEPT ![a] = r.ability]
                         /\ reduced' = [reduced EXCEPT ![a] = 0]
                         /\ last' = Call("use", [ch |-> "player", ability |-> a,
                                                 target |-> "enemy"], r.msgs)
              ELSE /\ last' = Call("cannot_use", [ch |-> "player",
                                                  ability |-> a], None)
                   /\ UNCHANGED <<chars, ability, reduced>>
       ELSE /\ last' = Call("no_turn", [ch |-> "player"], None)
            /\ UNCHANGED <<chars, ability, reduced>>
    /\ UNCHANGED <<gold, shop_inventory>>
    /\ UNCHANGED <<progress, drop_table, multipliers, heap>>

\* The enemy's turn: the ability ai_choose_ability returns, or a basic
\* attack when it returns None.
EnemyTurn ==
    /\ combat.pc = "enemy_turn"
    /\ combat' = [combat EXCEPT !.pc = "end_round"]
    /\ IF /\ is_alive(chars["enemy"])
          /\ ~has_status_effect(chars["enemy"], "stun")
       THEN \E a \in ai_choose_ability(chars["enemy"], chars["player"], ability) :
              IF a # None
              THEN \E roll \in Rolls(ability[a], chars["enemy"], TRUE) :
                     LET r == use(ability[a], chars["enemy"], chars["player"],
                                  TRUE, roll)
                     IN  /\ chars' = [chars EXCEPT !["enemy"] = r.caster,
                                                   !["player"] = r.target]
                         /\ ability' = [ability EXCEPT ![a] = r.ability]
                         /\ reduced' = [reduced EXCEPT ![a] = 0]
                         /\ last' = Call("use", [ch |-> "enemy", ability |-> a,
                                                 target |-> "player"], r.msgs)
              ELSE \E roll \in BasicRollLo..BasicRollHi :
                     LET damage == get_total_attack(chars["enemy"]) + roll
                     IN  /\ chars' = [chars EXCEPT
                                        !["player"] = take_damage(@, damage)]
                         /\ last' = Call("basic_attack",
                                         [ch |-> "enemy", amount |-> damage],
                                         actual_damage(chars["player"], damage))
                         /\ UNCHANGED <<ability, reduced>>
       ELSE /\ last' = Call("no_turn", [ch |-> "enemy"], None)
            /\ UNCHANGED <<chars, ability, reduced>>
    /\ UNCHANGED <<gold, shop_inventory>>
    /\ UNCHANGED <<progress, drop_table, multipliers, heap>>

\* "player.update_cooldowns(); enemy.update_cooldowns(); round_num += 1".
EndRound ==
    /\ combat.pc = "end_round"
    /\ combat' = [pc |-> "round", round_num |-> combat.round_num + 1]
    /\ LET after == update_cooldowns(chars["player"].abilities, ability)
           counted == count_reduced(chars["player"].abilities, ability, reduced)
       IN  /\ ability' = update_cooldowns(chars["enemy"].abilities, after)
           /\ reduced' = count_reduced(chars["enemy"].abilities, after, counted)
    /\ last' = Call("update_cooldowns", [ch |-> "enemy"], None)
    /\ UNCHANGED <<chars, gold, shop_inventory>>
    /\ UNCHANGED <<progress, drop_table, multipliers, heap>>

\* After the loop: the rewards and the drops when the enemy is dead.
EndCombat ==
    /\ combat.pc = "round"
    /\ ~LoopRuns
    /\ combat' = [combat EXCEPT !.pc = "done"]
    /\ IF ~is_alive(chars["enemy"])
       THEN LET pr == gain_experience(progress, EnemyExpReward)
            IN  /\ progress' = pr
                /\ gold' = gold + EnemyGoldReward
                /\ \E inc \in IncreaseRolls(pr.level - progress.level) :
                   \E rolls \in [1..Len(drop_table) -> DropRolls] :
                     chars' = [chars EXCEPT !["player"] =
                                 [level_up_stats(@, inc) EXCEPT !.inventory =
                                     @ \o get_drops(drop_table, rolls)]]
       ELSE UNCHANGED <<progress, gold, chars>>
    /\ last' = Call("end_combat", [ch |-> "player"], ~is_alive(chars["enemy"]))
    /\ UNCHANGED <<ability, shop_inventory, reduced, drop_table, multipliers, heap>>

\* The abilities of the fight: the player's poisoning attack, heal and
\* freezing attack, and the enemy's self-buff and poisoning attack.
LoopAbilities ==
    [p_dart |-> CombatAbilities.p_dart,
     p_heal |-> CombatAbilities.p_heal,
     p_ice  |-> Ability("attack", 1, 1, 2, StatusEffect("freeze", 2, 0)),
     e_cry  |-> Ability("buff", 0, 1, 2, StatusEffect("strength_boost", 2, 1)),
     e_dart |-> Ability("attack", 1, 1, 1, StatusEffect("poison", 2, 2))]

\* Constructor arguments of the two fighters: hp and mana.
FightHp == 4
FightMana == 3

InitCombat ==
    /\ chars = [c \in Chars |->
                  [Character(FightHp, FightMana, 2, 1) EXCEPT
                     !.abilities = IF c = "player"
                                   THEN <<"p_dart", "p_heal", "p_ice">>
                                   ELSE <<"e_cry", "e_dart">>]]
    /\ ability = LoopAbilities
    /\ gold = 0
    /\ shop_inventory = <<>>
    /\ progress = NewProgress
    /\ drop_table = <<>>
    /\ multipliers = DefaultMultipliers
    /\ combat = [pc |-> "round", round_num |-> 1]
    /\ heap = NoHeap
    /\ reduced = [a \in DOMAIN LoopAbilities |-> -1]
    /\ last = NoCall

NextCombat ==
    \/ RoundEffects
    \/ PlayerTurn
    \/ EnemyTurn
    \/ EndRound
    \/ EndCombat

SpecCombat == InitCombat /\ [][NextCombat]_vars

\* C20: a character whose hp has reached 0 is out of play: in the combat
\* loop nobody with hp <= 0 uses an ability or makes a basic attack.
C20_DeadDoNotAct ==
    [][last'.op \in {"use", "basic_attack"}
       => chars[last'.args.ch].hp > 0]_vars

\* The phase of the round in which a participant has its turn.
TurnOf(c) == IF c = "player" THEN "player_turn" ELSE "enemy_turn"

\* C21: in every round of the combat loop a participant that is frozen or
\* stunned at its turn does nothing: it uses no ability and makes no basic
\* attack, and the turn leaves its opponent's hp and status effects as they
\* were.
C21_PreventedDoNotAct ==
    [][\A c \in Chars :
         (/\ combat.pc = TurnOf(c)
          /\ combat'.pc # combat.pc
          /\ is_action_prevented(chars[c]))
         => (/\ last'.op \notin {"use", "basic_attack"}
             /\ chars'[Other(c)].hp = chars[Other(c)].hp
             /\ chars'[Other(c)].status_effects =
                   chars[Other(c)].status_effects)]_vars

\* The effect types the second tier of ai_choose_ability looks for on the
\* enemy.
SelfBuffTypes == {"strength_boost", "defense_boost", "speed_boost",
                  "regeneration"}

\* C30: in the combat loop a Buff ability the enemy picks through tier 2
\* puts its status effect on the enemy itself, so that the enemy carries a
\* self-buff afterwards (tier 2 is closed on its next turn while the effect
\* lasts), and the player's status effects are unchanged by it.
C30_EnemyBuffsItself ==
    [][(/\ combat.pc = "enemy_turn"
        /\ last'.op = "use"
        /\ last'.args.ch = "enemy"
        /\ ability[last'.args.ability].ability_type = "buff"
        /\ ability[last'.args.ability].status_effect # NoEffect)
       => (/\ \E i \in 1..Len(chars'["enemy"].status_effects) :
                chars'["enemy"].status_effects[i].effect_type \in SelfBuffTypes
           /\ chars'["player"].status_effects =
                 chars["player"].status_effects)]_vars

(***************************************************************************)
(* Ability.use, branch by branch: one caster with an ability of every type *)
(* with and without a status-effect template, and one opponent.            *)
(***************************************************************************)
UseAbilities ==
    [u_strike |-> Ability("attack", 1, 1, 1, NoEffect),
     u_dart   |-> Ability("attack", 1, 1, 1, StatusEffect("poison", 2, 1)),
     u_heal   |-> Ability("heal", 2, 1, 1, NoEffect),
     u_regen  |-> Ability("heal", 2, 1, 1, StatusEffect("regeneration", 2, 1)),
     u_cry    |-> Ability("buff", 0, 1, 1, StatusEffect("strength_boost", 2, 1)),
     u_pose   |-> Ability("buff", 0, 1, 1, NoEffect),
     u_curse  |-> Ability("debuff", 0, 1, 1, StatusEffect("weakness", 2, 1)),
     u_glare  |-> Ability("debuff", 0, 1, 1, NoEffect)]

\* The ability lists a caster starts with: two abilities of one type.
UseLists ==
    {<<"u_strike", "u_dart">>, <<"u_heal", "u_regen">>,
     <<"u_cry", "u_pose">>, <<"u_curse", "u_glare">>}

UseHp == 4
UseMana == 2

InitUse ==
    /\ \E abilities \in UseLists :
         chars = [c \in Chars |->
                    [Character(UseHp, UseMana, 2, 1) EXCEPT
                       !.hp = IF c = "player" THEN UseHp - 2 ELSE UseHp,
                       !.abilities = IF c = "player" THEN abilities
                                     ELSE <<>>]]
    /\ ability = UseAbilities
    /\ gold = 0
    /\ shop_inventory = <<>>
    /\ progress = NewProgress
    /\ drop_table = <<>>
    /\ multipliers = DefaultMultipliers
    /\ combat = NoCombat
    /\ heap = NoHeap
    /\ reduced = [a \in DOMAIN UseAbilities |-> -1]
    /\ last = NoCall

NextUse ==
    \/ \E a \in Range(chars["player"].abilities) :
         \E t \in {"enemy", None} : Use("player", a, t)
    \/ \E c \in Chars : ProcessStatusEffects(c)
    \/ UpdateCooldowns("player")
    \/ RestoreMana("player", UseMana)

SpecUse == InitUse /\ [][NextUse]_vars

\* A call of use that passed can_use, of an ability of the given type.
SuccessfulUse(type) ==
    /\ last'.op = "use"
    /\ ability[last'.args.ability].ability_type = type
    /\ can_use(ability[last'.args.ability], chars[last'.args.ch])

\* The status-effect list after a copy of the template of ab was attached:
\* the effects of the other types in their order, then the copy.
WithCopy(effects, ab) ==
    Append(SelectSeq(effects,
                     LAMBDA e : e.effect_type # ab.status_effect.effect_type),
           [effect_type |-> ab.status_effect.effect_type,
            duration |-> ab.status_effect.duration,
            remaining_duration |-> ab.status_effect.duration,
            power |-> ab.status_effect.power])

\* C22: a successful Attack use on a target takes mana_cost from the
\* caster, deals the target take_damage of get_total_attack(caster) + power
\* + r with r in -5..5, attaches a copy of the template to the target
\* exactly when there is a template and the target's hp is above 0 after
\* the damage, and leaves the caster's hp and status effects alone.
C22_AttackUse ==
    [][(SuccessfulUse("attack") /\ last'.args.target # None)
       => LET c == last'.args.ch
              t == last'.args.target
              ab == ability[last'.args.ability]
          IN  /\ chars'[c].mana = chars[c].mana - ab.mana_cost
              /\ chars'[c].hp = chars[c].hp
              /\ chars'[c].status_effects = chars[c].status_effects
              /\ \E r \in -5..5 :
                   LET damage == get_total_attack(chars[c]) + ab.power + r
                       actual == Max(1, damage - get_total_defense(chars[t]))
                   IN  /\ last'.ret[1] = Msg("attacks", actual)
                       /\ chars'[t].hp = Max(0, chars[t].hp - actual)
              /\ chars'[t].status_effects =
                    IF ab.status_effect # NoEffect /\ chars'[t].hp > 0
                    THEN WithCopy(chars[t].status_effects, ab)
                    ELSE chars[t].status_effects]_vars

\* The poisoning attack has just killed its target, which carries no poison.
C22_Witness ==
    /\ last.op = "use"
    /\ last.args.ability = "u_dart"
    /\ last.args.target = "enemy"
    /\ Len(last.ret) = 1
    /\ last.ret[1].kind = "attacks"
    /\ chars["enemy"].hp = 0
    /\ ~has_status_effect(chars["enemy"], "poison")

\* C23: a successful Heal use heals the caster, and nobody else, by power +
\* r with r in -2..2, capped at max_hp, and attaches the template, if there
\* is one, to the caster; whatever target is passed, the target's hp, mana
\* and status effects are as before.
C23_HealUse ==
    [][SuccessfulUse("heal")
       => LET c == last'.args.ch
              ab == ability[last'.args.ability]
          IN  /\ \E r \in -2..2 :
                   /\ last'.ret[1] = Msg("heals", ab.power + r)
                   /\ chars'[c].hp =
                         Min(chars[c].max_hp, chars[c].hp + ab.power + r)
              /\ chars'[c].status_effects =
                    IF ab.status_effect # NoEffect
                    THEN WithCopy(chars[c].status_effects, ab)
                    ELSE chars[c].status_effects
              /\ chars'[Other(c)].hp = chars[Other(c)].hp
              /\ chars'[Other(c)].mana = chars[Other(c)].mana
              /\ chars'[Other(c)].status_effects =
                    chars[Other(c)].status_effects]_vars

\* The heal with a template was used with the opponent as target: the
\* caster is at max_hp and regenerating, the opponent carries nothing.
C23_Witness ==
    /\ last.op = "use"
    /\ last.args.ability = "u_regen"
    /\ last.args.target = "enemy"
    /\ Len(last.ret) = 2
    /\ last.ret[1].kind = "heals"
    /\ chars["player"].hp = chars["player"].max_hp
    /\ has_status_effect(chars["player"], "regeneration")
    /\ chars["enemy"].status_effects = <<>>

\* Who receives the effect of a Buff or Debuff use: the set is empty when
\* nobody does.
Receivers(ab, c, t) ==
    IF ab.status_effect = NoEffect THEN {}
    ELSE IF t # None THEN {t}
    ELSE IF ab.ability_type = "buff" THEN {c}
    ELSE {}

\* C24: a successful Buff use with a template attaches the fresh effect to
\* the target when one is passed and to the caster when none is; a
\* successful Debuff use attaches it to the target when there are both a
\* target and a template; in every other case nobody's status effects
\* change; nobody's hp changes, and mana and cooldown are consumed in every
\* case.
C24_BuffDebuffUse ==
    [][(SuccessfulUse("buff") \/ SuccessfulUse("debuff"))
       => LET c == last'.args.ch
              a == last'.args.ability
              ab == ability[a]
              to == Receivers(ab, c, last'.args.target)
          IN  /\ \A x \in Chars :
                   /\ chars'[x].hp = chars[x].hp
                   /\ chars'[x].status_effects =
                         IF x \in to
                         THEN WithCopy(chars[x].status_effects, ab)
                         ELSE chars[x].status_effects
              /\ chars'[c].mana = chars[c].mana - ab.mana_cost
              /\ ability'[a].current_cooldown = ab.cooldown]_vars

\* The buff was used with the opponent as target: the opponent carries the
\* strength boost, the caster does not, and the buff is on cooldown.
C24_Witness ==
    /\ last.op = "use"
    /\ last.args.ability = "u_cry"
    /\ last.args.target = "enemy"
    /\ last.ret = <<Msg("gains", 0)>>
    /\ has_status_effect(chars["enemy"], "strength_boost")
    /\ ~has_status_effect(chars["player"], "strength_boost")
    /\ ability["u_cry"].current_cooldown = 1
    /\ chars["player"].mana = chars["player"].max_mana - 1

(***************************************************************************)
(* Ability.use and process_status_effects with the StatusEffect objects    *)
(* followed by address: heap.objects[n] is the object at address n and     *)
(* heap.status_effects[c] the list of addresses in the character's         *)
(* status_effects.  The template of an ability is an object like any other.*)
(***************************************************************************)
TemplateAbilities ==
    [t_cry  |-> Ability("buff", 0, 1, 1, StatusEffect("strength_boost", 2, 1)),
     t_dart |-> Ability("attack", 1, 1, 1, StatusEffect("poison", 2, 1))]

\* Ability.status_effect of each ability, as an address.
TemplateAt == [t_cry |-> 1, t_dart |-> 2]

\* How many StatusEffect objects the model follows.
MaxObjects == 4

\* The objects at the addresses of a list.
Deref(objects, refs) == [i \in 1..Len(refs) |-> objects[refs[i]]]

\* An attachment of the template object itself, without a copy.
template_itself(objects, template) == [objects |-> objects, ref |-> template]

\* "new_effect = StatusEffect(template.name, template.effect_type,
\*  template.duration, template.power, template.description)": a new object
\* and its address.
new_effect_object(objects, template) ==
    [objects |-> Append(objects,
                        StatusEffect(objects[template].effect_type,
                                     objects[template].duration,
                                     objects[template].power)),
     ref |-> Len(objects) + 1]

\* add_status_effect on addresses: list.remove of the first object of the
\* same effect type, then append.
add_status_effect_object(objects, refs, ref) ==
    LET same == {i \in 1..Len(refs) :
                   objects[refs[i]].effect_type = objects[ref].effect_type}
        kept == IF same = {} THEN refs
                ELSE RemoveAt(refs, CHOOSE i \in same : \A j \in same : i <= j)
    IN  Append(kept, ref)

\* The add_status_effect call of each branch of use: who receives the new
\* effect, None when the branch makes no such call.
attached_to(ab, has_target, target_alive) ==
    IF ab.status_effect = NoEffect THEN None
    ELSE CASE ab.ability_type = "attack" ->
                IF has_target /\ target_alive THEN "target" ELSE None
           [] ab.ability_type = "heal" -> "caster"
           [] ab.ability_type = "buff" ->
                IF has_target THEN "target" ELSE "caster"
           [] ab.ability_type = "debuff" ->
                IF has_target THEN "target" ELSE None

\* The first loop of process_status_effects on addresses: apply_effect
\* decrements remaining_duration of each object of the list in turn.
RECURSIVE apply_objects(_, _, _)
apply_objects(objects, refs, ch) ==
    IF refs = <<>> THEN objects
    ELSE apply_objects(
             [objects EXCEPT ![Head(refs)] = apply_effect(ch, @).effect],
             Tail(refs), ch)

\* process_status_effects on addresses: the objects afterwards and the list
\* without the expired ones.
process_objects(objects, refs, ch) ==
    LET applied == apply_objects(objects, refs, ch)
    IN  [objects |-> applied,
         refs |-> SelectSeq(refs, LAMBDA r : ~is_expired(applied[r]))]

UseObject(c, a, t) ==
    LET has_target == t # None
        target == IF has_target THEN chars[t] ELSE chars[c]
    IN  /\ Len(heap.objects) < MaxObjects
        /\ \E roll \in Rolls(ability[a], chars[c], has_target) :
             LET r == use(ability[a], chars[c], target, has_target, roll)
                 who == IF ~can_use(ability[a], chars[c]) THEN None
                        ELSE attached_to(ability[a], has_target,
                                         is_alive(r.target))
                 made == new_effect_object(heap.objects, TemplateAt[a])
             IN  /\ r.caster.hp >= 0 - MaxDeficit
                 /\ chars' = [x \in Chars |->
                                IF x = c THEN r.caster
                                ELSE IF x = t THEN r.target ELSE chars[x]]
                 /\ ability' = [ability EXCEPT ![a] = r.ability]
                 /\ heap' =
                      IF who = None THEN heap
                      ELSE [objects |-> made.objects,
                            status_effects |->
                               [heap.status_effects EXCEPT
                                  ![IF who = "caster" THEN c ELSE t] =
                                     add_status_effect_object(made.objects, @,
                                                              made.ref)]]
                 /\ reduced' = IF can_use(ability[a], chars[c])
                               THEN [reduced EXCEPT ![a] = 0] ELSE reduced
                 /\ last' = Call("use", [ch |-> c, ability |-> a, target |-> t],
                                 r.msgs)
                 /\ UNCHANGED <<gold, shop_inventory>>
                 /\ UNCHANGED <<progress, drop_table, multipliers, combat>>

ProcessObjects(c) ==
    LET r == process_status_effects(chars[c])
        p == process_objects(heap.objects, heap.status_effects[c], chars[c])
    IN  /\ chars' = [chars EXCEPT ![c] = r.ch]
        /\ heap' = [objects |-> p.objects,
                    status_effects |->
                       [heap.status_effects EXCEPT ![c] = p.refs]]
        /\ last' = Call("process_status_effects",
                        [ch |-> c, hp |-> chars[c].hp], r.messages)
        /\ UNCHANGED <<ability, gold, shop_inventory, reduced>>
        /\ UNCHANGED <<progress, drop_table, multipliers, combat>>

InitTemplate ==
    /\ chars = [c \in Chars |->
                  [Character(UseHp, UseMana, 2, 1) EXCEPT
                     !.abilities = IF c = "player" THEN <<"t_cry", "t_dart">>
                                   ELSE <<>>]]
    /\ ability = TemplateAbilities
    /\ heap = [objects |-> <<TemplateAbilities.t_cry.status_effect,
                             TemplateAbilities.t_dart.status_effect>>,
               status_effects |-> [c \in Chars |-> <<>>]]
    /\ gold = 0
    /\ shop_inventory = <<>>
    /\ progress = NewProgress
    /\ drop_table = <<>>
    /\ multipliers = DefaultMultipliers
    /\ combat = NoCombat
    /\ reduced = [a \in DOMAIN TemplateAbilities |-> -1]
    /\ last = NoCall

NextTemplate ==
    \/ \E a \in Range(chars["player"].abilities) :
         \E t \in {"enemy", None} : UseObject("player", a, t)
    \/ \E c \in Chars : ProcessObjects(c)
    \/ UpdateCooldowns("player")
    \/ RestoreMana("player", UseMana)

SpecTemplate == InitTemplate /\ [][NextTemplate]_vars

\* The positions of the status_effects lists.
Places(h) ==
    UNION {{<<c, i>> : i \in 1..Len(h.status_effects[c])} : c \in Chars}

Templates == {TemplateAt[a] : a \in DOMAIN TemplateAt}

\* The template of every ability is as it was constructed and in nobody's
\* status_effects, and no object is at two places of the lists.
C25_TemplateInvariant ==
    /\ \A a \in DOMAIN TemplateAt :
         /\ heap.objects[TemplateAt[a]] = TemplateAbilities[a].status_effect
         /\ heap.objects[TemplateAt[a]].remaining_duration =
               heap.objects[TemplateAt[a]].duration
    /\ \A p \in Places(heap) :
         /\ heap.status_effects[p[1]][p[2]] \notin Templates
         /\ \A q \in Places(heap) :
              heap.status_effects[p[1]][p[2]] = heap.status_effects[q[1]][q[2]]
              => p = q

\* A use that attaches puts a new object at the end of the receiver's list,
\* with the full duration of the template; process_status_effects of one
\* character leaves the objects of the other character as they were.
C25_TemplateStep ==
    /\ (last'.op = "use" /\ heap' # heap)
       => \E c \in Chars :
            LET refs == heap'.status_effects[c]
                new == refs[Len(refs)]
            IN  /\ refs # <<>>
                /\ new \notin DOMAIN heap.objects
                /\ heap'.objects[new].remaining_duration =
                      TemplateAbilities[last'.args.ability].status_effect.duration
                /\ \A n \in DOMAIN heap.objects :
                     heap'.objects[n] = heap.objects[n]
    /\ last'.op = "process_status_effects"
       => LET o == Other(last'.args.ch)
          IN  /\ heap'.status_effects[o] = heap.status_effects[o]
              /\ Deref(heap'.objects, heap'.status_effects[o]) =
                    Deref(heap.objects, heap.status_effects[o])

\* C25: the status-effect template of an ability is never attached to a
\* character and never changed: its remaining_duration stays equal to its
\* duration through every use and process_status_effects; every attached
\* effect is an object of its own that starts with remaining_duration =
\* the template's duration; and the countdown of the effect on one character
\* does not move the countdown of the effect the same ability put on the
\* other character.
C25_TemplateNeverAttached ==
    [](C25_TemplateInvariant) /\ [][C25_TemplateStep]_vars

\* The buff put its effect on both characters; the caster's copy has counted
\* down to 1 while the opponent's copy and the template are still at 2.
C25_Witness ==
    /\ \E i \in DOMAIN heap.status_effects["player"] :
         LET e == heap.objects[heap.status_effects["player"][i]]
         IN  e.effect_type = "strength_boost" /\ e.remaining_duration = 1
    /\ \E i \in DOMAIN heap.status_effects["enemy"] :
         LET e == heap.objects[heap.status_effects["enemy"][i]]
         IN  e.effect_type = "strength_boost" /\ e.remaining_duration = 2
    /\ heap.objects[TemplateAt["t_cry"]].remaining_duration = 2

(***************************************************************************)
(* get_total_attack and get_total_defense of a character that equips and   *)
(* unequips its items and gains and loses status effects.                  *)
(***************************************************************************)
GetTotalAttack(c) ==
    /\ last' = Call("get_total_attack", [ch |-> c], get_total_attack(chars[c]))
    /\ UNCHANGED <<chars, ability, gold, shop_inventory, reduced>>
    /\ UNCHANGED <<progress, drop_table, multipliers, combat, heap>>

GetTotalDefense(c) ==
    /\ last' = Call("get_total_defense", [ch |-> c],
                    get_total_defense(chars[c]))
    /\ UNCHANGED <<chars, ability, gold, shop_inventory, reduced>>
    /\ UNCHANGED <<progress, drop_table, multipliers, combat, heap>>

\* The status effects given to the character: one of each stat-changing
\* type and one of another type; the weakness and the vulnerability exceed
\* what the character can have.
TotalsEffects ==
    {StatusEffect("strength_boost", 2, 1), StatusEffect("weakness", 2, 9),
     StatusEffect("defense_boost", 2, 1), StatusEffect("vulnerability", 2, 4),
     StatusEffect("poison", 2, 1)}

\* The items of the character's inventory.
TotalsItems == <<"sword", "blade", "mail">>

InitTotals ==
    /\ chars = [c \in Chars |->
                  [Character(StartHp, StartMana, 2, 1)
                     EXCEPT !.inventory = IF c = "player" THEN TotalsItems
                                          ELSE <<>>]]
    /\ ability = <<>>
    /\ gold = 0
    /\ shop_inventory = <<>>
    /\ progress = NewProgress
    /\ drop_table = <<>>
    /\ multipliers = DefaultMultipliers
    /\ combat = NoCombat
    /\ heap = NoHeap
    /\ reduced = <<>>
    /\ last = NoCall

NextTotals ==
    \/ \E item \in Range(TotalsItems) : EquipItem("player", item, None)
    \/ \E slot \in {"weapon", "armor"} : UnequipItem("player", slot)
    \/ \E e \in TotalsEffects : AddStatusEffect("player", e)
    \/ \E e \in TotalsEffects : RemoveStatusEffect("player", e.effect_type)
    \/ GetTotalAttack("player")
    \/ GetTotalDefense("player")

SpecTotals == InitTotals /\ [][NextTotals]_vars

\* The stat delta of the item in a slot, 0 for an empty slot.
SlotDelta(ch, slot, stat) ==
    IF ch.equipped[slot] = None THEN 0
    ELSE LET stats == ItemDef(ch.equipped[slot]).stats
             at == {i \in 1..Len(stats) : stats[i][1] = stat}
         IN  IF at = {} THEN 0 ELSE stats[CHOOSE i \in at : TRUE][2]

\* What one status effect adds to a stat.
Modifier(e, stat) ==
    CASE <<e.effect_type, stat>> = <<"strength_boost", "attack">> -> e.power
      [] <<e.effect_type, stat>> = <<"weakness", "attack">> -> 0 - e.power
      [] <<e.effect_type, stat>> = <<"defense_boost", "defense">> -> e.power
      [] <<e.effect_type, stat>> = <<"vulnerability", "defense">> -> 0 - e.power
      [] OTHER -> 0

\* The sum of the modifiers of the first n status effects.
RECURSIVE ModifierSum(_, _, _)
ModifierSum(effects, stat, n) ==
    IF n = 0 THEN 0
    ELSE ModifierSum(effects, stat, n - 1) + Modifier(effects[n], stat)

\* Base stat, plus the deltas of the equipped items, plus the modifiers of
\* the status effects, floored at 0.
TotalOf(ch, base, stat) ==
    LET sum == base + SlotDelta(ch, "weapon", stat) + SlotDelta(ch, "armor", stat)
                    + SlotDelta(ch, "consumable", stat)
                    + ModifierSum(ch.status_effects, stat, Len(ch.status_effects))
    IN  IF sum < 0 THEN 0 ELSE sum

\* C26: get_total_attack (get_total_defense) returns max(0, attack (defense)
\* of the character + the attack (defense) deltas of the equipped items +
\* the modifiers of its status effects), with +power for a strength boost
\* and -power for a weakness on attack, +power for a defense boost and
\* -power for a vulnerability on defense, and 0 for every other effect; the
\* result is never negative and the call changes nothing.
C26_Totals ==
    [][/\ last'.op = "get_total_attack"
          => /\ last'.ret = TotalOf(chars[last'.args.ch],
                                    chars[last'.args.ch].attack, "attack")
             /\ last'.ret >= 0
       /\ last'.op = "get_total_defense"
          => /\ last'.ret = TotalOf(chars[last'.args.ch],
                                    chars[last'.args.ch].defense, "defense")
             /\ last'.ret >= 0
       /\ last'.op \in {"get_total_attack", "get_total_defense"}
          => /\ chars' = chars
             /\ UNCHANGED <<ability, gold, shop_inventory, heap>>]_vars

\* The total attack of a character with a weapon equipped and a weakness
\* larger than everything else was read: it is 0.
C26_Witness ==
    /\ last.op = "get_total_attack"
    /\ last.ret = 0
    /\ chars["player"].equipped["weapon"] # None
    /\ has_status_effect(chars["player"], "weakness")
    /\ has_status_effect(chars["player"], "strength_boost")

\* C27: equip_item of an inventory item into an occupied slot unequips the
\* occupant and equips the new item: afterwards the slot holds the new
\* item, the old item is in the inventory, the inventory has the size it
\* had, and attack and defense are their values without the old item's
\* deltas plus the new item's deltas; equip_item of an item that is not in
\* the inventory changes nothing.
C27_EquipIntoOccupiedSlot ==
    [][last'.op = "equip_item"
       => LET c == last'.args.ch
              item == last'.args.item
              slot == last'.args.slot
              old == chars[c].equipped[slot]
          IN  /\ (last'.args.held /\ last'.args.occupied)
                 => /\ chars'[c].equipped[slot] = item
                    /\ in_inventory(chars'[c], old)
                    /\ Len(chars'[c].inventory) = Len(chars[c].inventory)
                    /\ chars'[c].attack =
                          chars[c].attack
                          - stats_get(ItemDef(old).stats, "attack")
                          + stats_get(ItemDef(item).stats, "attack")
                    /\ chars'[c].defense =
                          chars[c].defense
                          - stats_get(ItemDef(old).stats, "defense")
                          + stats_get(ItemDef(item).stats, "defense")
              /\ ~last'.args.held => chars' = chars]_vars

\* C28: equip_item and unequip_item change nothing of the character but
\* attack, defense, the inventory and the equipped mapping: hp, max_hp,
\* mana and max_mana of the character, and the player's level and gold, are
\* as before, whatever the keys of the item's stats.
C28_EquipFrame ==
    [][last'.op \in {"equip_item", "unequip_item"}
       => LET c == last'.args.ch
          IN  /\ chars'[c].hp = chars[c].hp
              /\ chars'[c].max_hp = chars[c].max_hp
              /\ chars'[c].mana = chars[c].mana
              /\ chars'[c].max_mana = chars[c].max_mana
              /\ progress'.level = progress.level
              /\ gold' = gold]_vars

(***************************************************************************)
(* One Ability object in the ability lists of two characters: add_ability  *)
(* and create_custom_enemy append the object they are handed.              *)
(***************************************************************************)
SharedAbilities == [s_strike |-> Ability("attack", 1, 1, 2, NoEffect)]

\* "player.update_cooldowns(); enemy.update_cooldowns()" at the end of a
\* round.
UpdateBothCooldowns ==
    /\ LET after == update_cooldowns(chars["player"].abilities, ability)
           counted == count_reduced(chars["player"].abilities, ability, reduced)
       IN  /\ ability' = update_cooldowns(chars["enemy"].abilities, after)
           /\ reduced' = count_reduced(chars["enemy"].abilities, after, counted)
    /\ last' = Call("end_round", [ch |-> None], None)
    /\ UNCHANGED <<chars, gold, shop_inventory>>
    /\ UNCHANGED <<progress, drop_table, multipliers, combat, heap>>

InitShared ==
    /\ chars = [c \in Chars |->
                  [Character(FightHp, FightMana, 2, 1) EXCEPT
                     !.abilities = <<"s_strike">>]]
    /\ ability = SharedAbilities
    /\ gold = 0
    /\ shop_inventory = <<>>
    /\ progress = NewProgress
    /\ drop_table = <<>>
    /\ multipliers = DefaultMultipliers
    /\ combat = NoCombat
    /\ heap = NoHeap
    /\ reduced = [a \in DOMAIN SharedAbilities |-> -1]
    /\ last = NoCall

NextShared ==
    \/ \E c \in Chars : \E a \in Range(chars[c].abilities) :
         Use(c, a, Other(c))
    \/ UpdateBothCooldowns
    \/ \E c \in Chars : RestoreMana(c, 1)

SpecShared == InitShared /\ [][NextShared]_vars

\* C29: a use by one character leaves can_use of every ability of the other
\* character's list as it was (the other's mana and status effects being
\* unchanged), and over the end of a round the current_cooldown of every
\* ability drops by at most 1, also when one Ability object is in the lists
\* of both characters.
C29_UseIsPrivate ==
    [][/\ last'.op = "use"
          => LET o == Other(last'.args.ch)
             IN  (/\ chars'[o].mana = chars[o].mana
                  /\ chars'[o].status_effects = chars[o].status_effects)
                 => \A b \in Range(chars[o].abilities) :
                      can_use(ability'[b], chars'[o])
                         = can_use(ability[b], chars[o])
       /\ last'.op = "end_round"
          => \A a \in DOMAIN ability :
               ability'[a].current_cooldown >= ability[a].current_cooldown - 1
      ]_vars

(***************************************************************************)
(* The combat loop from its first statement to the end of                  *)
(* demonstrate_combat, for fighters that fall within the round cap and for *)
(* fighters that outlast it.  The statements of the loop run one after the *)
(* other, so a statement that can run does run.                            *)
(***************************************************************************)
\* Defense of the two fighters: no hit takes more than the 1 hp floor.
RoundsDefense == 8

InitRounds ==
    /\ \E hp \in {FightHp, FightHp + MaxRounds} :
         chars = [c \in Chars |->
                    [Character(hp, FightMana, 2, RoundsDefense) EXCEPT
                       !.abilities = IF c = "player"
                                     THEN <<"p_dart", "p_heal">>
                                     ELSE <<"e_dart">>]]
    /\ ability = LoopAbilities
    /\ gold = 0
    /\ shop_inventory = <<>>
    /\ progress = NewProgress
    /\ drop_table = <<>>
    /\ multipliers = DefaultMultipliers
    /\ combat = [pc |-> "round", round_num |-> 1]
    /\ heap = NoHeap
    /\ reduced = [a \in DOMAIN LoopAbilities |-> -1]
    /\ last = NoCall

SpecRounds == InitRounds /\ [][NextCombat]_vars /\ WF_vars(NextCombat)

\* A round starts only with both fighters above 0 hp and within the cap.
C31_RoundStarts ==
    (combat.pc = "round" /\ combat'.pc = "player_turn")
    => /\ chars["player"].hp > 0
       /\ chars["enemy"].hp > 0
       /\ combat.round_num <= 8

\* The loop is left with a fighter at 0 hp or with the cap exceeded.
C31_LoopLeft ==
    combat.pc = "done"
    => \/ chars["player"].hp = 0
       \/ chars["enemy"].hp = 0
       \/ combat.round_num > 8

\* C31: the combat loop always terminates; it runs a further round only
\* while both fighters have hp > 0 and the round number is at most 8, so
\* that the combat ends with a fighter at 0 hp or by the cap, and no round
\* starts with a fighter at 0 hp.
C31_CombatTerminates ==
    /\ [][C31_RoundStarts]_vars
    /\ [](C31_LoopLeft)
    /\ <>(combat.pc = "done")

\* The combat has ended by the cap: both fighters are alive after round 8.
C31_Witness ==
    /\ combat.pc = "done"
    /\ combat.round_num = 9
    /\ chars["player"].hp > 0
    /\ chars["enemy"].hp > 0

(***************************************************************************)
(* The combat loop between two fighters that each have one attack with a   *)
(* Freeze or Stun template of 1 to MaxStun turns; the player has a heal    *)
(* besides.                                                                *)
(***************************************************************************)
\* The longest Freeze or Stun, and the cooldown of the attacks (the
\* cooldown of AbilityFactory.stunning_blow).
MaxStun == 3

StunAbilities(kind, d) ==
    [p_stun |-> Ability("attack", 1, 0, MaxStun, StatusEffect(kind, d, 0)),
     p_heal |-> Ability("heal", 1, 0, 0, NoEffect),
     e_stun |-> Ability("attack", 1, 0, MaxStun, StatusEffect(kind, d, 0))]

InitStun ==
    /\ chars = [c \in Chars |->
                  [Character(FightHp + 2, FightMana, 2, RoundsDefense) EXCEPT
                     !.abilities = IF c = "player"
                                   THEN <<"p_stun", "p_heal">>
                                   ELSE <<"e_stun">>]]
    /\ \E kind \in {"freeze", "stun"} : \E d \in 1..MaxStun :
         ability = StunAbilities(kind, d)
    /\ gold = 0
    /\ shop_inventory = <<>>
    /\ progress = NewProgress
    /\ drop_table = <<>>
    /\ multipliers = DefaultMultipliers
    /\ combat = [pc |-> "round", round_num |-> 1]
    /\ heap = NoHeap
    /\ reduced = [a \in {"p_stun", "p_heal", "e_stun"} |-> -1]
    /\ last = NoCall

SpecStun == InitStun /\ [][NextCombat]_vars

\* The rounds that have ended since the ability was last used (-1: never
\* used); reduced counts them up to the cooldown, which is no shorter than
\* the effect.
RoundsSince(a) == reduced[a]

\* C32: in the round order of the combat loop a Freeze or Stun of duration
\* d prevents its victim's action at the victim's turn of the round in
\* which the player applied it to the enemy and of the d-1 rounds after it
\* (d turns), and at the player's turn of the d-1 rounds after the one in
\* which the enemy applied it to the player (d-1 turns); one of duration 1
\* applied by the enemy is gone before the player's next turn.
C32_PreventedTurns ==
    /\ (combat.pc = "enemy_turn" /\ chars["enemy"].hp > 0)
       => (is_action_prevented(chars["enemy"])
           <=> (/\ RoundsSince("p_stun") >= 0
                /\ RoundsSince("p_stun") < ability["p_stun"].status_effect.duration))
    /\ (combat.pc = "player_turn" /\ chars["player"].hp > 0)
       => (is_action_prevented(chars["player"])
           <=> (/\ RoundsSince("e_stun") >= 1
                /\ RoundsSince("e_stun") < ability["e_stun"].status_effect.duration))

\* The enemy applied a Stun of duration 1 in the round before: at the
\* player's turn it is gone.
C32_Witness ==
    /\ combat.pc = "player_turn"
    /\ chars["player"].hp > 0
    /\ ability["e_stun"].status_effect.duration = 1
    /\ ability["e_stun"].status_effect.effect_type = "stun"
    /\ RoundsSince("e_stun") = 1
    /\ chars["player"].status_effects = <<>>

(***************************************************************************)
(* The combat loop between two fighters whose abilities have a cooldown of *)
(* 0 to MaxCooldown rounds and cost no mana.                               *)
(***************************************************************************)
MaxCooldown == 3

CooldownAbilities(c) ==
    [p_skill |-> Ability("attack", 1, 0, c, NoEffect),
     p_heal  |-> Ability("heal", 1, 0, 0, NoEffect),
     e_skill |-> Ability("attack", 1, 0, c, NoEffect)]

InitCooldown ==
    /\ chars = [c \in Chars |->
                  [Character(FightHp + 2, FightMana, 2, RoundsDefense) EXCEPT
                     !.abilities = IF c = "player"
                                   THEN <<"p_skill", "p_heal">>
                                   ELSE <<"e_skill">>]]
    /\ \E c \in 0..MaxCooldown : ability = CooldownAbilities(c)
    /\ gold = 0
    /\ shop_inventory = <<>>
    /\ progress = NewProgress
    /\ drop_table = <<>>
    /\ multipliers = DefaultMultipliers
    /\ combat = [pc |-> "round", round_num |-> 1]
    /\ heap = NoHeap
    /\ reduced = [a \in {"p_skill", "p_heal", "e_skill"} |-> -1]
    /\ last = NoCall

SpecCooldown == InitCooldown /\ [][NextCombat]_vars

\* C33: with update_cooldowns at the end of every round, an ability of
\* cooldown c used in round N is blocked by its cooldown at its owner's
\* turn in the rounds N+1 .. N+c-1 and in no other round, and can be used
\* again in round N+c; one of cooldown 1 can be used at its owner's turn in
\* every round, like one of cooldown 0.
C33_BlockedRounds ==
    \A o \in Chars :
      combat.pc = TurnOf(o)
      => \A a \in Range(chars[o].abilities) :
           /\ ability[a].current_cooldown > 0
              <=> (/\ RoundsSince(a) >= 1
                   /\ RoundsSince(a) <= ability[a].cooldown - 1)
           /\ can_use(ability[a], chars[o])
              <=> ~(/\ RoundsSince(a) >= 1
                    /\ RoundsSince(a) <= ability[a].cooldown - 1)
           /\ ability[a].cooldown <= 1 => can_use(ability[a], chars[o])

\* An ability of cooldown 1 was used in the round before and can be used
\* at its owner's turn.
C33_Witness ==
    /\ combat.pc = "player_turn"
    /\ ability["p_skill"].cooldown = 1
    /\ RoundsSince("p_skill") = 1
    /\ can_use(ability["p_skill"], chars["player"])

\* C34: a usable Attack ability used with no target still takes mana_cost
\* from the caster and sets current_cooldown = cooldown; it changes nothing
\* else (nobody's hp, nobody's status effects) and returns the empty
\* message, not a failure message.
C34_UntargetedAttack ==
    [][(SuccessfulUse("attack") /\ last'.args.target = None)
       => LET c == last'.args.ch
              a == last'.args.ability
          IN  /\ chars' = [chars EXCEPT
                             ![c].mana = chars[c].mana - ability[a].mana_cost]
              /\ ability' = [ability EXCEPT
                               ![a].current_cooldown = ability[a].cooldown]
              /\ last'.ret = <<>>]_vars

\* The poisoning attack was used with no target: the mana is spent, the
\* attack is on cooldown and nothing was reported.
C34_Witness ==
    /\ last.op = "use"
    /\ last.args.ability = "u_dart"
    /\ last.args.target = None
    /\ last.ret = <<>>
    /\ chars["player"].mana < chars["player"].max_mana
    /\ ability["u_dart"].current_cooldown = 1
    /\ chars["enemy"].hp = chars["enemy"].max_hp
    /\ chars["enemy"].status_effects = <<>>

(***************************************************************************)
(* take_damage on a character of any small base defense that puts armor    *)
(* on and off and gains and loses defense effects.                         *)
(***************************************************************************)
\* The largest base defense a character is constructed with.
MaxBaseDefense == 2

\* A defense boost, and a vulnerability that exceeds base defense and armor.
HitEffects ==
    {StatusEffect("defense_boost", 1, 2),
     StatusEffect("vulnerability", 1, MaxBaseDefense + 5)}

HitItems == <<"mail", "sword">>

InitHits ==
    /\ \E defense \in 0..MaxBaseDefense :
         chars = [c \in Chars |->
                    [Character(StartHp + MaxDamage, StartMana, 2, defense)
                       EXCEPT !.inventory = IF c = "player" THEN HitItems
                                            ELSE <<>>]]
    /\ ability = <<>>
    /\ gold = 0
    /\ shop_inventory = <<>>
    /\ progress = NewProgress
    /\ drop_table = <<>>
    /\ multipliers = DefaultMultipliers
    /\ combat = NoCombat
    /\ heap = NoHeap
    /\ reduced = <<>>
    /\ last = NoCall

NextHits ==
    \/ \E damage \in (0 - 1)..MaxDamage : TakeDamage("player", damage)
    \/ Heal("player", MaxDamage)
    \/ \E item \in Range(HitItems) : EquipItem("player", item, None)
    \/ \E slot \in {"weapon", "armor"} : UnequipItem("player", slot)
    \/ \E e \in HitEffects : AddStatusEffect("player", e)
    \/ \E e \in HitEffects : RemoveStatusEffect("player", e.effect_type)

SpecHits == InitHits /\ [][NextHits]_vars

\* C35: the damage taken never exceeds the incoming amount: for every
\* amount >= 1, whatever the base defense, the equipment and the
\* vulnerability of the character, take_damage(amount) returns a value from
\* 1 to amount, and hp falls by no more than the value returned.
C35_DamageWithinAmount ==
    [][(last'.op = "take_damage" /\ last'.args.amount >= 1)
       => LET c == last'.args.ch
          IN  /\ last'.ret >= 1
              /\ last'.ret <= last'.args.amount
              /\ chars'[c].hp <= chars[c].hp
              /\ chars[c].hp - chars'[c].hp <= last'.ret]_vars

\* A vulnerable character in armor took a hit in full: the value returned
\* is the amount, and hp fell by it.
C35_Witness ==
    /\ last.op = "take_damage"
    /\ last.args.amount = 3
    /\ last.ret = 3
    /\ has_status_effect(chars["player"], "vulnerability")
    /\ chars["player"].equipped["armor"] = "mail"
    /\ chars["player"].hp = chars["player"].max_hp - 3

\* What the two totals gain over a step of the character.
TotalsGain(c) ==
    [attack |-> get_total_attack(chars'[c]) - get_total_attack(chars[c]),
     defense |-> get_total_defense(chars'[c]) - get_total_defense(chars[c])]

\* Twice the attack and defense bonuses of an item.
TwiceBonus(item) ==
    [attack |-> 2 * stats_get(ItemDef(item).stats, "attack"),
     defense |-> 2 * stats_get(ItemDef(item).stats, "defense")]

\* The unequip_item half of C36: taking the item off a character without
\* status effects lowers each total by twice the item's bonus.
UnequipLowersTwice ==
    (/\ last'.op = "unequip_item"
     /\ chars[last'.args.ch].status_effects = <<>>
     /\ chars[last'.args.ch].equipped[last'.args.slot] # None)
    => LET c == last'.args.ch
           b == TwiceBonus(chars[c].equipped[last'.args.slot])
       IN  /\ TotalsGain(c).attack = 0 - b.attack
           /\ TotalsGain(c).defense = 0 - b.defense

\* C36 as stated: every equip_item of a held item on a character without
\* status effects raises total attack and total defense by twice the item's
\* bonus, and unequip_item lowers them by the same.
C36_EquipRaisesTwice ==
    [][/\ (/\ last'.op = "equip_item"
           /\ last'.args.held
           /\ chars[last'.args.ch].status_effects = <<>>)
          => TotalsGain(last'.args.ch) = TwiceBonus(last'.args.item)
       /\ UnequipLowersTwice]_vars

\* C36: equip_item of a held item into an empty slot, on a character
\* without status effects, raises get_total_attack by twice the item's
\* attack bonus and get_total_defense by twice its defense bonus (once in the
\* attribute, once from the equipped mapping); unequip_item lowers the
\* totals by the same.
C36_EquipEmptySlotRaisesTwice ==
    [][/\ (/\ last'.op = "equip_item"
           /\ last'.args.held
           /\ ~last'.args.occupied
           /\ chars[last'.args.ch].status_effects = <<>>)
          => TotalsGain(last'.args.ch) = TwiceBonus(last'.args.item)
       /\ UnequipLowersTwice]_vars

\* The blade (+3) has just gone into the empty weapon slot of a character
\* without status effects: total attack is base 2 + 3 + 3.
C36_Witness ==
    /\ last.op = "equip_item"
    /\ last.args.item = "blade"
    /\ last.args.held
    /\ ~last.args.occupied
    /\ chars["player"].status_effects = <<>>
    /\ chars["player"].equipped["weapon"] = "blade"
    /\ get_total_attack(chars["player"]) = 8

(***************************************************************************)
(* gain_experience for amounts from 0 on, on every player that earlier     *)
(* calls have produced.                                                    *)
(***************************************************************************)
GainInputs == {0, 100, 250}

NextGains == \E exp \in GainInputs : GainExperience(exp)

SpecGains == InitLevels /\ [][NextGains]_vars

\* Every call returns, with the experience below the threshold, and a
\* level-up raises the threshold.
C37_GainInvariant ==
    /\ \A exp \in GainInputs :
         LET pr == gain_experience(progress, exp)
         IN  /\ pr.experience >= 0
             /\ pr.experience < pr.experience_to_next_level
    /\ level_up(progress).experience_to_next_level
          > progress.experience_to_next_level

C37_GainStep ==
    last'.op = "gain_experience"
    => /\ progress'.experience >= 0
       /\ progress'.experience < progress'.experience_to_next_level
       /\ progress'.level >= progress.level
       /\ progress'.stat_points >= progress.stat_points
       /\ IF progress'.level > progress.level
          THEN progress'.experience_to_next_level
                  > progress.experience_to_next_level
          ELSE progress'.experience_to_next_level
                  = progress.experience_to_next_level

\* C37: for every player that calls from construction on have produced and
\* every exp >= 0, gain_experience(exp) returns; each level-up raises
\* experience_to_next_level strictly; on return 0 <= experience <
\* experience_to_next_level; level and stat_points do not go down.
C37_GainTerminates == [](C37_GainInvariant) /\ [][C37_GainStep]_vars

\* gain_experience(0) has just returned on a player that had levelled up:
\* nothing moved, and the threshold is above the first one.
C37_Witness ==
    /\ last.op = "gain_experience"
    /\ last.args.exp = 0
    /\ last.args.before = progress
    /\ progress.level > 1
    /\ progress.experience_to_next_level > 100
    /\ progress.experience > 0

\* The units of an item in the shop's stock and with a character, in the
\* inventory or equipped.
UnitsHeld(ch, stock, item) ==
    Count(stock, item) + Count(ch.inventory, item)
    + Cardinality({s \in Slots : ch.equipped[s] = item})

\* A buy_item of an item in stock at a price the player can pay.
C38_BuyStep ==
    (/\ last'.op = "buy_item"
     /\ last'.args.item \in Range(shop_inventory)
     /\ gold >= get_buy_price(last'.args.item))
    => LET item == last'.args.item
       IN  /\ last'.ret = TRUE
           /\ gold' = gold - get_buy_price(item)
           /\ chars'["player"] =
                 [chars["player"] EXCEPT !.inventory = Append(@, item)]
           /\ \A i \in Items :
                Count(shop_inventory', i) =
                   Count(shop_inventory, i) - (IF i = item THEN 1 ELSE 0)

\* buy_item and sell_item keep the units of every item: they change nothing
\* or the counts before and after agree.
C38_UnitsStep ==
    last'.op \in {"buy_item", "sell_item"}
    => \/ UNCHANGED <<chars, shop_inventory>>
       \/ \A i \in Items :
            UnitsHeld(chars'["player"], shop_inventory', i) =
               UnitsHeld(chars["player"], shop_inventory, i)

\* C38: a successful buy_item lowers the player's gold by get_buy_price(item),
\* moves one unit of the item from the shop's stock to the end of the
\* player's inventory and returns True; buy_item and sell_item keep the
\* number of units that shop and player hold together; the player's gold is
\* never negative.
C38_BuyMovesOneUnit ==
    [](gold >= 0) /\ [][C38_BuyStep /\ C38_UnitsStep]_vars

\* The player has bought one of the shop's two swords: the other one is
\* still in stock and the gold is down by the price.
C38_Witness ==
    /\ last.op = "buy_item"
    /\ last.args.item = "sword"
    /\ last.ret = TRUE
    /\ Count(shop_inventory, "sword") = 1
    /\ Count(chars["player"].inventory, "sword") = 1
    /\ gold = StartGold - get_buy_price("sword")

(***************************************************************************)
(* Player.allocate_stat_point, on players that have levelled up 0 to       *)
(* MaxLevel - 1 times.                                                     *)
(***************************************************************************)
\* "stat in ['max_hp', 'max_mana', 'attack', 'defense']".
AllocatableStats == {"max_hp", "max_mana", "attack", "defense"}

\* The attributes of a Player besides those of Character.
ProgressAttributes ==
    {"level", "experience", "experience_to_next_level", "gold", "stat_points"}

\* hasattr(self, stat) for a string.
has_attribute(stat) ==
    stat \in NumericAttributes \cup MethodAttributes \cup ProgressAttributes

\* An allocate_stat_point without the test against the list of stats.
allocate_stat_point_any_attribute(ch, pr, stat) ==
    IF pr.stat_points > 0 /\ stat \in NumericAttributes
    THEN LET raised == add_to_attribute(ch, stat, 1)
         IN  [ch |-> IF stat = "max_hp" THEN add_to_attribute(raised, "hp", 1)
                     ELSE IF stat = "max_mana"
                     THEN add_to_attribute(raised, "mana", 1)
                     ELSE raised,
              pr |-> [pr EXCEPT !.stat_points = pr.stat_points - 1],
              ok |-> TRUE]
    ELSE [ch |-> ch, pr |-> pr, ok |-> FALSE]

\* Player.allocate_stat_point(stat): the character and the progress fields
\* afterwards, and the returned value.
allocate_stat_point(ch, pr, stat) ==
    IF pr.stat_points > 0 /\ has_attribute(stat) /\ stat \in AllocatableStats
    THEN LET raised == add_to_attribute(ch, stat, 1)
         IN  [ch |-> IF stat = "max_hp" THEN add_to_attribute(raised, "hp", 1)
                     ELSE IF stat = "max_mana"
                     THEN add_to_attribute(raised, "mana", 1)
                     ELSE raised,
              pr |-> [pr EXCEPT !.stat_points = pr.stat_points - 1],
              ok |-> TRUE]
    ELSE [ch |-> ch, pr |-> pr, ok |-> FALSE]

AllocateStatPoint(stat) ==
    LET r == allocate_stat_point(chars["player"], progress, stat)
    IN  /\ chars' = [chars EXCEPT !["player"] = r.ch]
        /\ progress' = r.pr
        /\ last' = Call("allocate_stat_point",
                        [ch |-> "player", stat |-> stat], r.ok)
        /\ UNCHANGED <<ability, gold, shop_inventory, reduced>>
        /\ UNCHANGED <<drop_table, multipliers, combat, heap>>

\* The strings handed to allocate_stat_point: the four stats, two other
\* numeric attributes, a Player attribute, a method and no attribute at all.
StatInputs == AllocatableStats \cup {"hp", "mana", "gold", "heal", "luck"}

\* The lowest rolls of n level-ups.
LowestRolls(n) ==
    [hp |-> n * HpIncreaseLo, mana |-> n * ManaIncreaseLo,
     attack |-> n * AttackIncreaseLo, defense |-> n * DefenseIncreaseLo]

\* A player after gain_experience from construction: no, one or two
\* level-ups, each with the lowest rolls.
InitPoints ==
    /\ \E exp \in ExpInputs \cup {0} :
         /\ progress = gain_experience(NewProgress, exp)
         /\ chars = [c \in Chars |->
                       IF c = "player"
                       THEN level_up_stats(
                                Character(DefaultHp, DefaultMana,
                                          DefaultAttack, DefaultDefense),
                                LowestRolls(progress.level - NewProgress.level))
                       ELSE Character(EnemyDefaultHp, EnemyDefaultMana,
                                      EnemyDefaultAttack, EnemyDefaultDefense)]
    /\ ability = <<>>
    /\ gold = 0
    /\ shop_inventory = <<>>
    /\ drop_table = <<>>
    /\ multipliers = DefaultMultipliers
    /\ combat = NoCombat
    /\ heap = NoHeap
    /\ reduced = <<>>
    /\ last = NoCall

NextPoints ==
    \/ \E stat \in StatInputs : AllocateStatPoint(stat)
    \/ TakeDamage("player", MaxDamage)

SpecPoints == InitPoints /\ [][NextPoints]_vars

\* C39: allocate_stat_point(stat) returns True only when stat_points > 0
\* and stat is max_hp, max_mana, attack or defense; it then raises that
\* stat by 1 (and hp with max_hp, mana with max_mana) and lowers
\* stat_points by 1; in every other case it returns False and changes
\* nothing; stat_points is never negative.
C39_AllocateStep ==
    last'.op = "allocate_stat_point"
    => LET stat == last'.args.stat
           before == chars["player"]
       IN  IF progress.stat_points > 0
              /\ stat \in {"max_hp", "max_mana", "attack", "defense"}
           THEN /\ last'.ret = TRUE
                /\ progress' = [progress EXCEPT
                                  !.stat_points = progress.stat_points - 1]
                /\ chars'["player"] =
                      CASE stat = "max_hp" ->
                             [before EXCEPT !.max_hp = before.max_hp + 1,
                                            !.hp = before.hp + 1]
                        [] stat = "max_mana" ->
                             [before EXCEPT !.max_mana = before.max_mana + 1,
                                            !.mana = before.mana + 1]
                        [] stat = "attack" ->
                             [before EXCEPT !.attack = before.attack + 1]
                        [] stat = "defense" ->
                             [before EXCEPT !.defense = before.defense + 1]
           ELSE /\ last'.ret = FALSE
                /\ progress' = progress
                /\ chars' = chars

C39_AllocateStatPoint ==
    [](progress.stat_points >= 0) /\ [][C39_AllocateStep]_vars

\* A wounded player spent its last stat point on max_hp: hp and max_hp are
\* one up and no point is left.
C39_Witness ==
    /\ last.op = "allocate_stat_point"
    /\ last.args.stat = "max_hp"
    /\ last.ret = TRUE
    /\ progress.stat_points = 0
    /\ chars["player"].hp < chars["player"].max_hp
    /\ chars["player"].max_hp = DefaultHp + HpIncreaseLo + 1

====
